---- MODULE Spec2Model ----
(***************************************************************************)
(* Plant Whisperer: the score normalizers, the state derivation and the    *)
(* temporal tracker of the usePlantState hook.                             *)
(*                                                                         *)
(* The repository holds two revisions of services/plantModel.ts.  The      *)
(* deadzone revision (src/plant-whisperer/src/services/plantModel.ts)      *)
(* keeps the source's names; the sensor-guidelines revision                *)
(* (src/unnamed/part_016), which the tracker hook of src/unnamed/part_008  *)
(* imports, carries the suffix _g.                                         *)
(*                                                                         *)
(* Raw readings are JavaScript numbers.  A reading is modelled as an       *)
(* integer count of 1/RawDen units, so that non-integer readings are       *)
(* covered; scores are computed as exact fractions and rounded the way     *)
(* Math.round does (half up).                                              *)
(***************************************************************************)
EXTENDS Integers, Sequences, FiniteSets, TLC

\* Resolution of a raw reading: one raw unit is RawDen model units.
RawDen == 2

Max(a, b) == IF a >= b THEN a ELSE b
Min(a, b) == IF a <= b THEN a ELSE b
Abs(a) == IF a >= 0 THEN a ELSE -a

\* Math.round(p / q) for q > 0: floor(p/q + 1/2).
Round(p, q) == (2 * p + q) \div (2 * q)

\* A raw threshold of the source, in model units.
U(n) == n * RawDen

(***************************************************************************)
(* plantModel.ts, deadzone revision                                        *)
(***************************************************************************)

\* The unrounded hydration score as a fraction <<num, den>>, before the
\* wetness cushion (lines 52-77).
HydrationBand(soil) ==
    LET clamped == Max(U(350), Min(U(850), soil))
    IN  IF clamped >= U(480) /\ clamped <= U(620) THEN <<100, 1>>
        ELSE IF clamped < U(450)
             THEN <<20 * U(100) + 80 * (clamped - U(350)), U(100)>>
        ELSE IF clamped < U(480)
             THEN <<60 * U(30) + 40 * (clamped - U(450)), U(30)>>
        ELSE IF clamped <= U(700)
             THEN <<100 * U(80) - 40 * (clamped - U(620)), U(80)>>
        ELSE <<60 * U(150) - 60 * (clamped - U(700)), U(150)>>

\* The cushion of lines 79-82 on a fraction: min(60, score + 15) when the
\* raindrop reading is below 400 and the score below 60.
HydrationCushion(score, rain) ==
    IF rain < U(400) /\ score[1] < 60 * score[2]
    THEN IF score[1] + 15 * score[2] <= 60 * score[2]
         THEN <<score[1] + 15 * score[2], score[2]>>
         ELSE <<60, 1>>
    ELSE score

computeHydrationScore(soil, rain) ==
    LET score == HydrationCushion(HydrationBand(soil), rain)
    IN  Max(0, Min(100, Round(score[1], score[2])))

\* A variant of computeTempScore with the former deadzone 22..25 (the
\* comment of line 110 records the old lower edge): claim C9 must tell the
\* two apart.
computeTempScore_formerDeadzone(temp) ==
    IF temp >= U(22) /\ temp <= U(25) THEN 100
    ELSE IF temp < U(18) THEN Max(0, Round(40 * (temp - U(10)), U(8)))
    ELSE IF temp > U(29) THEN Max(0, Round(40 * (U(35) - temp), U(6)))
    ELSE IF temp < U(22) THEN Round(40 * U(4) + 60 * (temp - U(18)), U(4))
    ELSE Round(40 * U(4) + 60 * (U(29) - temp), U(4))

computeTempScore(temp) ==
    IF temp >= U(21) /\ temp <= U(25) THEN 100
    ELSE IF temp < U(18) THEN Max(0, Round(40 * (temp - U(10)), U(8)))
    ELSE IF temp > U(29) THEN Max(0, Round(40 * (U(35) - temp), U(6)))
    ELSE IF temp < U(21) THEN Round(40 * U(3) + 60 * (temp - U(18)), U(3))
    ELSE Round(40 * U(4) + 60 * (U(29) - temp), U(4))

computeHumScore(hum) ==
    IF hum >= U(55) /\ hum <= U(68) THEN 100
    ELSE IF hum < U(40) THEN Max(0, Round(40 * (hum - U(20)), U(20)))
    ELSE IF hum > U(80) THEN Max(0, Round(40 * (U(90) - hum), U(10)))
    ELSE IF hum < U(55) THEN Round(40 * U(15) + 60 * (hum - U(40)), U(15))
    ELSE Round(40 * U(12) + 60 * (U(80) - hum), U(12))

computeComfortScore(temp, hum) ==
    Round(computeTempScore(temp) + computeHumScore(hum), 2)

\* ratio = mq2 / mq2Baseline; the thresholds 1.15, 1.5 and 2.0 are compared
\* after multiplying through by the (positive) baseline.
computeAirQualityScore(mq2, baseline) ==
    IF baseline <= 0 THEN 50
    ELSE IF 100 * mq2 <= 115 * baseline THEN 100
    ELSE IF 2 * mq2 <= 3 * baseline
         THEN Round(100 * 35 * baseline - 30 * (100 * mq2 - 115 * baseline),
                    35 * baseline)
    ELSE IF mq2 <= 2 * baseline
         THEN Round(70 * baseline - 30 * (2 * mq2 - 3 * baseline), baseline)
    ELSE IF mq2 - 2 * baseline >= 2 * baseline THEN 20
    ELSE Round(40 * 2 * baseline - 20 * (mq2 - 2 * baseline), 2 * baseline)

computeBioSignalScore(bio) ==
    IF bio >= U(4) /\ bio <= U(22) THEN 100
    ELSE IF bio < U(2) THEN Round(20 * Max(0, bio), U(2))
    ELSE IF bio < U(4) THEN Round(20 * U(2) + 80 * (bio - U(2)), U(2))
    ELSE IF bio <= U(60) THEN Round(100 * U(38) - 60 * (bio - U(22)), U(38))
    ELSE Max(0, Round(40 * U(2) - (bio - U(60)), U(2)))

\* A variant of deriveEmotionState that tests the temperature before the
\* watering contact: claim C2 must tell the two apart.
deriveEmotionState_temperatureFirst(scores, vitals) ==
    IF vitals.temperature >= U(30) THEN "I_FEEL_HOT"
    ELSE IF vitals.temperature <= U(15) THEN "I_FEEL_COLD"
    ELSE IF vitals.raindrop < U(400) /\ scores.hydrationScore < 60
        THEN "I_AM_BEING_WATERED"
    ELSE IF scores.hydrationScore <= 10 THEN "I_AM_NEARLY_DEAD"
    ELSE IF scores.hydrationScore > 10 /\ scores.hydrationScore < 30
        THEN "I_NEED_WATER"
    ELSE IF vitals.humidity >= U(80) THEN "I_AM_SWEATING_THIS_IS_TOO_HUMID"
    ELSE IF scores.airQualityScore < 40 THEN "AIR_FEELS_BAD"
    ELSE IF scores.bioSignalScore < 20 THEN "CHECK_MY_CONNECTION"
    ELSE IF /\ scores.hydrationScore >= 80
            /\ scores.comfortScore >= 80
            /\ scores.airQualityScore >= 70
            /\ scores.bioSignalScore >= 40
        THEN "I_FEEL_GREAT"
    ELSE "I_AM_OKAY"

deriveEmotionState(scores, vitals) ==
    IF vitals.raindrop < U(400) /\ scores.hydrationScore < 60
        THEN "I_AM_BEING_WATERED"
    ELSE IF scores.hydrationScore <= 10 THEN "I_AM_NEARLY_DEAD"
    ELSE IF scores.hydrationScore > 10 /\ scores.hydrationScore < 30
        THEN "I_NEED_WATER"
    ELSE IF vitals.temperature >= U(30) THEN "I_FEEL_HOT"
    ELSE IF vitals.temperature <= U(15) THEN "I_FEEL_COLD"
    ELSE IF vitals.humidity >= U(80) THEN "I_AM_SWEATING_THIS_IS_TOO_HUMID"
    ELSE IF scores.airQualityScore < 40 THEN "AIR_FEELS_BAD"
    ELSE IF scores.bioSignalScore < 20 THEN "CHECK_MY_CONNECTION"
    ELSE IF /\ scores.hydrationScore >= 80
            /\ scores.comfortScore >= 80
            /\ scores.airQualityScore >= 70
            /\ scores.bioSignalScore >= 40
        THEN "I_FEEL_GREAT"
    ELSE "I_AM_OKAY"

\* deriveMood of the deadzone revision (lines 306-319).
deriveMood(scores) ==
    IF scores.hydrationScore < 10 THEN "critical"
    ELSE IF scores.hydrationScore < 30 THEN "thirsty"
    ELSE IF \/ scores.comfortScore < 30
            \/ scores.airQualityScore < 30
            \/ scores.bioSignalScore < 20
        THEN "stressed"
    ELSE IF /\ scores.hydrationScore > 80
            /\ scores.comfortScore > 80
            /\ scores.airQualityScore > 70
            /\ scores.bioSignalScore > 40
        THEN "thriving"
    ELSE "ok"

\* getEmotionMessage of the deadzone revision: the text of an event.  The
\* emoji that ends the watering text is left out.
getEmotionMessage(emotion) ==
    CASE emotion = "I_NEED_WATER" -> "I'm thirsty, please water me soon."
      [] emotion = "I_AM_BEING_WATERED" -> "Ahh, thank you for the water"
      [] emotion = "I_FEEL_HOT" -> "It's too hot here."
      [] emotion = "I_AM_SWEATING_THIS_IS_TOO_HUMID" ->
            "Too humid, I can't breathe."
      [] emotion = "AIR_FEELS_BAD" -> "Air quality feels off."
      [] emotion = "CHECK_MY_CONNECTION" -> "Check my clips/electrodes."
      [] emotion = "I_AM_NEARLY_DEAD" -> "I need water urgently!"
      [] emotion = "I_FEEL_COLD" -> "It's too cold here."
      [] emotion = "I_FEEL_GREAT" -> "I feel amazing!"
      [] emotion = "I_AM_OKAY" -> "I am doing okay."
      [] OTHER -> "Status update."

(***************************************************************************)
(* plantModel.ts, sensor-guidelines revision (src/unnamed/part_016)        *)
(***************************************************************************)

computeTemperatureState(temp) ==
    IF temp < U(13) THEN "cold_animation"
    ELSE IF temp > U(27) THEN "hot_animation"
    ELSE "stable_animation"

computeTempScore_g(temp) ==
    IF temp >= U(13) /\ temp <= U(27) THEN 100
    ELSE IF temp < U(10) THEN Round(40 * Max(0, temp), U(10))
    ELSE IF temp > U(30) THEN Round(40 * Max(0, U(35) - temp), U(5))
    ELSE IF temp < U(13) THEN Round(40 * U(3) + 60 * (temp - U(10)), U(3))
    ELSE Round(40 * U(3) + 60 * (U(30) - temp), U(3))

computeHumidityState(hum) ==
    IF hum > U(80) THEN "humid"
    ELSE IF hum < U(35) THEN "dry_air"
    ELSE "normal_air"

computeHumScore_g(hum) ==
    IF hum >= U(40) /\ hum <= U(70) THEN 100
    ELSE IF hum < U(35) THEN Round(40 * Max(0, hum), U(35))
    ELSE IF hum > U(80) THEN Round(40 * Max(0, U(100) - hum), U(20))
    ELSE IF hum < U(40) THEN Round(40 * U(5) + 60 * (hum - U(35)), U(5))
    ELSE Round(40 * U(10) + 60 * (U(80) - hum), U(10))

computeSoilMoistureState(soil) ==
    IF soil >= U(900) THEN "dry"
    ELSE IF soil >= U(700) THEN "thirsty"
    ELSE IF soil >= U(400) THEN "okay"
    ELSE "hydrated"

\* The raindrop reading is a parameter of the source function and is not read.
computeHydrationScore_g(soil, rain) ==
    IF soil >= U(400) /\ soil <= U(699) THEN 100
    ELSE IF soil < U(400)
         THEN IF soil <= U(150) THEN 70
              ELSE Round(70 * U(250) + 30 * (soil - U(150)), U(250))
    ELSE IF soil >= U(700) /\ soil < U(900)
         THEN Round(80 * U(200) - 40 * (soil - U(700)), U(200))
    ELSE IF soil - U(900) >= U(120) THEN 0
    ELSE Round(40 * U(120) - 40 * (soil - U(900)), U(120))

computeComfortScore_g(temp, hum) ==
    Round(computeTempScore_g(temp) + computeHumScore_g(hum), 2)

computeAirQualityState(mq2) ==
    IF mq2 > U(200) THEN "polluted"
    ELSE IF mq2 >= U(150) THEN "air_bad"
    ELSE "air_good"

computeAirQualityScore_g(mq2) ==
    IF mq2 < U(150)
    THEN IF mq2 <= U(70) THEN 100
         ELSE Round(100 * U(80) - 30 * (mq2 - U(70)), U(80))
    ELSE IF mq2 < U(200)
         THEN Round(70 * U(50) - 40 * (mq2 - U(150)), U(50))
    ELSE IF mq2 - U(200) >= U(300) THEN 0
    ELSE Round(30 * U(300) - 30 * (mq2 - U(200)), U(300))

computeBioSignalScore_g(bio) ==
    IF bio >= U(400) /\ bio <= U(600) THEN 100
    ELSE IF bio < U(50) THEN Round(20 * Max(0, bio), U(50))
    ELSE IF bio > U(900) THEN Round(20 * Max(0, U(1023) - bio), U(123))
    ELSE IF bio < U(400) THEN Round(20 * U(350) + 80 * (bio - U(50)), U(350))
    ELSE Round(20 * U(300) + 80 * (U(900) - bio), U(300))

\* soilScore*0.40 + tempScore*0.30 + humScore*0.20 + mq2Score*0.10, rounded
\* and clamped; the soil score is taken with the default raindrop 1020.
computeOverallHealth(soil, temp, hum, mq2) ==
    LET soilScore == computeHydrationScore_g(soil, U(1020))
        tempScore == computeTempScore_g(temp)
        humScore == computeHumScore_g(hum)
        mq2Score == computeAirQualityScore_g(mq2)
    IN  Max(0, Min(100,
            Round(4 * soilScore + 3 * tempScore + 2 * humScore + mq2Score, 10)))

\* isWatering of computePlantCurrentState (line 410).
isWatering(vitals) == vitals.raindrop < U(300)

\* The label deriveEmotionState returns in the guidelines revision; the
\* call's update of the bio baseline window is updateBioBaseline below.
deriveEmotionState_g(scores, vitals) ==
    IF isWatering(vitals) THEN "I_AM_BEING_WATERED"
    ELSE IF computeSoilMoistureState(vitals.soilMoisture) = "dry"
        THEN "I_AM_NEARLY_DEAD"
    ELSE IF computeSoilMoistureState(vitals.soilMoisture) = "thirsty"
        THEN "I_NEED_WATER"
    ELSE IF computeTemperatureState(vitals.temperature) = "hot_animation"
        THEN "I_FEEL_HOT"
    ELSE IF computeTemperatureState(vitals.temperature) = "cold_animation"
        THEN "I_FEEL_COLD"
    ELSE IF computeHumidityState(vitals.humidity) = "humid"
        THEN "I_AM_SWEATING_THIS_IS_TOO_HUMID"
    ELSE IF computeAirQualityState(vitals.mq2) \in {"polluted", "air_bad"}
        THEN "AIR_FEELS_BAD"
    ELSE IF /\ scores.hydrationScore >= 80
            /\ scores.comfortScore >= 80
            /\ scores.airQualityScore >= 70
            /\ scores.bioSignalScore >= 40
        THEN "I_FEEL_GREAT"
    ELSE "I_AM_OKAY"

EmotionStates ==
    {"I_FEEL_GREAT", "I_AM_OKAY", "I_NEED_WATER", "I_AM_BEING_WATERED",
     "I_AM_NEARLY_DEAD", "I_FEEL_HOT", "I_FEEL_COLD",
     "I_AM_SWEATING_THIS_IS_TOO_HUMID", "AIR_FEELS_BAD",
     "CHECK_MY_CONNECTION"}

(***************************************************************************)
(* plantModel.ts, guidelines revision: bio baseline, current state, mood   *)
(***************************************************************************)

BIO_BASELINE_WINDOW == 15

RECURSIVE Sum(_)
Sum(w) == IF w = <<>> THEN 0 ELSE Head(w) + Sum(Tail(w))

\* bioReadings after updateBioBaseline(bio): push, drop the oldest reading
\* once the window holds more than BIO_BASELINE_WINDOW.
updateBioBaseline(readings, bio) ==
    LET pushed == Append(readings, bio)
    IN  IF Len(pushed) > BIO_BASELINE_WINDOW THEN Tail(pushed) ELSE pushed

\* The label computeBioSignalState returns, given the window after its push:
\* |bio - baseline| > 0.6 * baseline with baseline = sum / length.
computeBioSignalState(readings, bio) ==
    LET n == Len(readings)
        sum == Sum(readings)
    IN  IF bio > U(900) \/ bio < U(50) THEN "wind_trigger"
        ELSE IF 10 * Abs(n * bio - sum) > 6 * sum THEN "wind_trigger"
        ELSE "rest"

\* computePlantCurrentState: the six sensor states; bioReadings is the
\* window before the call, and the call pushes vitals.bio onto it once.
computePlantCurrentState(readings, vitals) ==
    [temperature |-> computeTemperatureState(vitals.temperature),
     humidity |-> computeHumidityState(vitals.humidity),
     soilMoisture |-> computeSoilMoistureState(vitals.soilMoisture),
     bioSignal |-> computeBioSignalState(
                       updateBioBaseline(readings, vitals.bio), vitals.bio),
     airQuality |-> computeAirQualityState(vitals.mq2),
     isWatering |-> isWatering(vitals)]

deriveMood_g(scores) ==
    IF scores.hydrationScore < 10 THEN "critical"
    ELSE IF scores.hydrationScore < 30 THEN "thirsty"
    ELSE IF \/ scores.comfortScore < 30
            \/ scores.airQualityScore < 30
            \/ scores.bioSignalScore < 20
        THEN "stressed"
    ELSE IF /\ scores.hydrationScore > 80
            /\ scores.comfortScore > 80
            /\ scores.airQualityScore > 70
            /\ scores.bioSignalScore > 40
        THEN "thriving"
    ELSE "ok"

\* getEmotionMessage of the guidelines revision: the text of an event.  The
\* emoji that ends the watering text is left out.
getEmotionMessage_g(emotion) ==
    CASE emotion = "I_NEED_WATER" -> "I'm thirsty, please water me soon."
      [] emotion = "I_AM_BEING_WATERED" -> "Ahh, thank you for the water"
      [] emotion = "I_FEEL_HOT" -> "It's too hot here."
      [] emotion = "I_AM_SWEATING_THIS_IS_TOO_HUMID" ->
            "Too humid, I can't breathe."
      [] emotion = "AIR_FEELS_BAD" -> "Air quality feels off."
      [] emotion = "CHECK_MY_CONNECTION" -> "Check my clips/electrodes."
      [] emotion = "I_AM_NEARLY_DEAD" -> "I need water urgently!"
      [] emotion = "I_FEEL_COLD" -> "It's too cold here."
      [] emotion = "I_FEEL_GREAT" -> "I feel amazing!"
      [] emotion = "I_AM_OKAY" -> "I am doing okay."
      [] OTHER -> "Status update."

(***************************************************************************)
(* usePlantState (src/unnamed/part_008): numbers                           *)
(*                                                                         *)
(* The comfort indices, Wi, Gi and PCS are JavaScript numbers in 0..1.     *)
(* They are modelled in fixed point: the index 1.0 is Unit, soilPercent    *)
(* 100 is 100 * Unit.  A division 0/0 gives NaN, which Math.min, Math.max  *)
(* and the arithmetic operators propagate and every comparison answers     *)
(* with false; NaN is the only negative value an index ever holds.         *)
(* Date.now() is counted in ticks, TicksPerDay to the day, and             *)
(* benchmarkDays in tenths of a day.  A null timestamp is 0: the code      *)
(* tests timestamps by truthiness only (lines 983, 1017).                  *)
(***************************************************************************)

\* Fixed-point resolution of an index.
Unit == 10000

\* Clock resolution.
TicksPerDay == 2

\* The value of 0/0 (line 906 with equal soil targets).
NaN == -1

IsNaN(x) == x = NaN

\* p / q for q # 0, rounded to the nearest fixed-point value.
Div(p, q) == IF q > 0 THEN Round(p, q) ELSE Round(-p, -q)

\* Math.min and Math.max on indices.
fmin(a, b) == IF IsNaN(a) \/ IsNaN(b) THEN NaN ELSE Min(a, b)
fmax(a, b) == IF IsNaN(a) \/ IsNaN(b) THEN NaN ELSE Max(a, b)

\* clamp(v, min, max) = Math.max(min, Math.min(max, v)), lines 896.
clamp(v, lo, hi) == fmax(lo, fmin(hi, v))

\* a <= b and a > b as JavaScript compares numbers.
fle(a, b) == ~IsNaN(a) /\ ~IsNaN(b) /\ a <= b
fgt(a, b) == ~IsNaN(a) /\ ~IsNaN(b) /\ a > b

\* (ka * a + kb * b) / k for indices a, b and integer weights.
fmix(ka, a, kb, b, k) ==
    IF IsNaN(a) \/ IsNaN(b) THEN NaN ELSE Round(ka * a + kb * b, k)

\* a * b for two indices.
fmul(a, b) == IF IsNaN(a) \/ IsNaN(b) THEN NaN ELSE Round(a * b, Unit)

\* Math.abs(a - b).
fdist(a, b) == IF IsNaN(a) \/ IsNaN(b) THEN NaN ELSE Abs(a - b)

SOIL_CAL_DRY == 850
SOIL_CAL_WET == 400

DEFAULT_RAW_VITALS ==
    [soilMoisture |-> U(550), temperature |-> U(23), humidity |-> U(60),
     mq2 |-> U(70), raindrop |-> U(1020), bio |-> U(500)]

CARE_DEFAULTS ==
    [max_temp |-> 32, min_temp |-> 10, max_env_humid |-> 85,
     min_env_humid |-> 30, max_soil_moist |-> 60, min_soil_moist |-> 15]

\* clamp(mapRange(soil, SOIL_CAL_DRY, SOIL_CAL_WET, 0, 100), 0, 100): the
\* map is monotone, so the reading is clamped to the calibration range first.
soilPercentOf(soil) ==
    LET c == Max(U(SOIL_CAL_WET), Min(U(SOIL_CAL_DRY), soil))
    IN  Round((U(SOIL_CAL_DRY) - c) * 100 * Unit,
              U(SOIL_CAL_DRY) - U(SOIL_CAL_WET))

\* clamp((soilPercent - min) / (max - min), 0, 1), line 906.  With equal
\* targets the quotient is +Infinity, -Infinity or NaN.
moistureIndexOf(soilPercent, care) ==
    LET num == soilPercent - care.min_soil_moist * Unit
        den == care.max_soil_moist - care.min_soil_moist
    IN  IF den = 0
        THEN IF num > 0 THEN Unit ELSE IF num < 0 THEN 0 ELSE NaN
        ELSE Max(0, Min(Unit, Div(num, den)))

\* clamp(1 - |reading - opt| / half, 0, 1) with opt = (max + min) / 2 and
\* half = (max - min) / 2 || 1, lines 909-916.
comfortIndexOf(reading, lo, hi) ==
    LET dist == Abs(2 * reading - U(hi + lo))
        half == IF hi - lo = 0 THEN 2 * RawDen ELSE U(hi - lo)
    IN  Max(0, Min(Unit, Unit - Div(dist * Unit, half)))

computeComfortMetrics(raw, care) ==
    LET soilPercent == soilPercentOf(raw.soilMoisture)
        moistureIndex == moistureIndexOf(soilPercent, care)
        tempComfortIndex ==
            comfortIndexOf(raw.temperature, care.min_temp, care.max_temp)
        humidityComfortIndex ==
            comfortIndexOf(raw.humidity, care.min_env_humid, care.max_env_humid)
    IN  [moistureIndex |-> moistureIndex,
         tempComfortIndex |-> tempComfortIndex,
         humidityComfortIndex |-> humidityComfortIndex,
         pcs |-> clamp(fmix(4, moistureIndex,
                            3, tempComfortIndex + humidityComfortIndex, 10),
                       0, Unit),
         soilPercent |-> soilPercent]

computeScores(raw) ==
    [hydrationScore |-> computeHydrationScore_g(raw.soilMoisture, raw.raindrop),
     comfortScore |-> computeComfortScore_g(raw.temperature, raw.humidity),
     airQualityScore |-> computeAirQualityScore_g(raw.mq2),
     bioSignalScore |-> computeBioSignalScore_g(raw.bio)]

(***************************************************************************)
(* usePlantState: updateStateFromRawVitals (lines 992-1132)                *)
(***************************************************************************)

RAINDROP_PARTIAL_THRESHOLD == 400
REQUIRED_WET_STREAK == 3
Z_TRIG == 3
WINDOW == 60
REQUIRED_SPIKE_HITS == 3
RECENT_WINDOW == 5

\* A value that may be null: <<>> is null, <<v>> holds v.
Null == <<>>
Some(v) == <<v>>

\* A variant of wetStreakUpdate that keeps the count on a sample without
\* wet contact: claim C15 must tell the two apart.
wetStreakUpdate_noReset(streak, raindrop) ==
    IF raindrop < U(RAINDROP_PARTIAL_THRESHOLD) THEN streak + 1 ELSE streak

\* wetStreakRef after lines 1000-1004.
wetStreakUpdate(streak, raindrop) ==
    IF raindrop < U(RAINDROP_PARTIAL_THRESHOLD) THEN streak + 1 ELSE 0

\* Wi of lines 1016-1021; benchmarkDays in tenths of a day.
wateringIndex(lastWateredAt, nowTick, benchmarkDays, moistureIndex) ==
    IF lastWateredAt = 0 THEN 0
    ELSE LET wiRaw ==
                Max(0, Unit - Div(10 * (nowTick - lastWateredAt) * Unit,
                                  TicksPerDay * Max(1, benchmarkDays)))
         IN  fmin(wiRaw, moistureIndex)

\* mq2WindowRef after lines 1030-1032.
pushWindow(w, mq2) ==
    LET pushed == Append(w, mq2)
    IN  IF Len(pushed) > WINDOW THEN Tail(pushed) ELSE pushed

RECURSIVE SumSquaredDeviations(_, _, _)
\* Sum over the window of (n * b - sum)^2, that is n^2 times the sum of the
\* squared deviations from the mean.
SumSquaredDeviations(w, n, sum) ==
    IF w = <<>> THEN 0
    ELSE (n * Head(w) - sum) * (n * Head(w) - sum)
            + SumSquaredDeviations(Tail(w), n, sum)

\* z >= Z_TRIG of lines 1033-1037 for the window after the push, decided in
\* integers: z = (mq2 - mean) / std with std^2 = max(variance, 1e-6) and
\* variance = sum of squared deviations / max(1, n - 1).  The floor 1e-6
\* decides only when all readings of the window are equal, where z = 0.
isHighZ(w, mq2) ==
    LET n == Len(w)
        sum == Sum(w)
        above == n * mq2 - sum
    IN  /\ above > 0
        /\ above * above * Max(1, n - 1)
                >= Z_TRIG * Z_TRIG * SumSquaredDeviations(w, n, sum)

\* A variant of highZHitsUpdate that keeps the count on a sample that does
\* not qualify: claim C5 must tell the two apart.
highZHitsUpdate_noDecay(hits, highZ) ==
    Min(IF highZ THEN hits + 1 ELSE hits, RECENT_WINDOW)

\* highZHitsRef after lines 1037-1038.
highZHitsUpdate(hits, highZ) ==
    LET counted == IF highZ THEN hits + 1
                   ELSE IF hits > 0 THEN hits - 1 ELSE hits
    IN  Min(counted, RECENT_WINDOW)

\* A variant of gasIndexUpdate that confirms a spike one hit later: claim
\* C4 must tell the two apart.
gasIndexUpdate_oneHitLate(gi, hits) ==
    IF hits > REQUIRED_SPIKE_HITS
    THEN [gi |-> Min(gi, Unit \div 5), highZHits |-> 0]
    ELSE [gi |-> Min(Unit, gi + Round(Unit - gi, 100)), highZHits |-> hits]

\* giRef and highZHitsRef after lines 1039-1044.
gasIndexUpdate(gi, hits) ==
    IF hits >= REQUIRED_SPIKE_HITS
    THEN [gi |-> Min(gi, Unit \div 5), highZHits |-> 0]
    ELSE [gi |-> Min(Unit, gi + Round(Unit - gi, 100)), highZHits |-> hits]

\* pcsMul of lines 1048-1051.
multiplicativePcs(metrics, wi, gi) ==
    LET comfortBase ==
            fmix(2, metrics.moistureIndex,
                 1, metrics.tempComfortIndex + metrics.humidityComfortIndex, 4)
        waterFactor ==
            fmix(9, Unit, 1, fmin(wi, metrics.moistureIndex), 10)
        gasFactor == fmix(7, Unit, 3, gi, 10)
    IN  clamp(fmul(fmul(comfortBase, waterFactor), gasFactor), 0, Unit)

\* A variant of eventLogUpdate that keeps the 20 oldest entries of an
\* overfull log: claim C11 must tell the two apart.
eventLogUpdate_keepOldest(eventLog, prevEmotion, newEmotion, message, nowTick) ==
    IF newEmotion # prevEmotion
    THEN LET event ==
                [type |-> IF newEmotion = "I_AM_BEING_WATERED"
                          THEN "watered" ELSE "warning",
                 message |-> message,
                 timestamp |-> nowTick]
             log == <<event>> \o eventLog
         IN  SubSeq(log, Len(log) - Min(20, Len(log)) + 1, Len(log))
    ELSE eventLog

\* The event prepended on an emotion change, lines 1071-1083 (the same
\* statements as lines 158-170 of the earlier hook); message is the text
\* getEmotionMessage gives for newEmotion.
eventLogUpdate(eventLog, prevEmotion, newEmotion, message, nowTick) ==
    IF newEmotion # prevEmotion
    THEN LET event ==
                [type |-> IF newEmotion = "I_AM_BEING_WATERED"
                          THEN "watered" ELSE "warning",
                 message |-> message,
                 timestamp |-> nowTick]
             log == <<event>> \o eventLog
         IN  SubSeq(log, 1, Min(20, Len(log)))
    ELSE eventLog

\* A variant of reminderUpdate that clears the reminder whenever the
\* hydration score is 30 or more: claim C13 must tell the two apart.
reminderUpdate_clearsEarly(pendingReminder, scores, nowTick) ==
    IF scores.hydrationScore < 30
    THEN Some([id |-> "reminder-water", type |-> "water",
               dueDate |-> nowTick,
               isUrgent |-> scores.hydrationScore < 10])
    ELSE Null

\* pendingReminder after lines 1085-1101 (the same statements as lines
\* 172-188 of the earlier hook); dueDate is two hours after the tick it
\* records.
reminderUpdate(pendingReminder, scores, nowTick) ==
    IF scores.hydrationScore < 30
    THEN Some([id |-> "reminder-water", type |-> "water",
               dueDate |-> nowTick,
               isUrgent |-> scores.hydrationScore < 10])
    ELSE IF /\ scores.hydrationScore >= 60
            /\ scores.comfortScore >= 60
            /\ scores.airQualityScore >= 50
            /\ scores.bioSignalScore >= 30
        THEN Null
    ELSE pendingReminder

\* prev * (1 - ALPHA) + new * ALPHA with ALPHA = 0.2, lines 1109-1115.
smoothMetrics(prevM, newMetrics) ==
    [moistureIndex |->
        fmix(8, prevM.moistureIndex, 2, newMetrics.moistureIndex, 10),
     tempComfortIndex |->
        fmix(8, prevM.tempComfortIndex, 2, newMetrics.tempComfortIndex, 10),
     humidityComfortIndex |->
        fmix(8, prevM.humidityComfortIndex,
             2, newMetrics.humidityComfortIndex, 10),
     pcs |-> fmix(8, prevM.pcs, 2, newMetrics.pcs, 10),
     soilPercent |-> fmix(8, prevM.soilPercent, 2, newMetrics.soilPercent, 10)]

\* A variant of majorChange that counts every change: claim C16 must tell
\* the two apart.
majorChange_anyChange(smooth, prevM) == smooth # prevM

\* major of lines 1117-1123: DELTA_INDEX = 0.03, DELTA_SOILPCT = 2.
majorChange(smooth, prevM) ==
    LET deltaIndex == (3 * Unit) \div 100
    IN  \/ fgt(fdist(smooth.moistureIndex, prevM.moistureIndex), deltaIndex)
        \/ fgt(fdist(smooth.tempComfortIndex, prevM.tempComfortIndex),
               deltaIndex)
        \/ fgt(fdist(smooth.humidityComfortIndex, prevM.humidityComfortIndex),
               deltaIndex)
        \/ fgt(fdist(smooth.pcs, prevM.pcs), deltaIndex)
        \/ fgt(fdist(smooth.soilPercent, prevM.soilPercent), 2 * Unit)

\* Math.round((hydration + comfort + airQuality) / 3) and the three bars.
displayVitals(scores) ==
    [health |-> Round(scores.hydrationScore + scores.comfortScore
                        + scores.airQualityScore, 3),
     water |-> scores.hydrationScore,
     sunlight |-> scores.comfortScore,
     soil |-> scores.hydrationScore]

\* The care targets a sample is scored against: careTargets ?? CARE_DEFAULTS.
careOf(careTargets) ==
    IF careTargets = Null THEN CARE_DEFAULTS ELSE careTargets[1]

\* One run of updateStateFromRawVitals on the hook h = [now, store, refs,
\* state, closure, bioReadings]: the hook after the run, and in sample the
\* values the run computed for the reading (its locals).
updateStateFromRawVitals(h, raw) ==
    LET newScores == computeScores(raw)
        baseMetrics == computeComfortMetrics(raw, careOf(h.closure.careTargets))
        streak == wetStreakUpdate(h.refs.wetStreak, raw.raindrop)
        watered == streak >= REQUIRED_WET_STREAK
        lastWateredAt == IF watered THEN h.now ELSE h.refs.lastWateredAt
        wi == wateringIndex(lastWateredAt, h.now, h.closure.benchmarkDays,
                            baseMetrics.moistureIndex)
        w == pushWindow(h.refs.mq2Window, raw.mq2)
        highZ == isHighZ(w, raw.mq2)
        hits == highZHitsUpdate(h.refs.highZHits, highZ)
        gas == gasIndexUpdate(h.refs.gi, hits)
        newMetrics ==
            [baseMetrics EXCEPT !.pcs = multiplicativePcs(baseMetrics, wi, gas.gi)]
        newMood == deriveMood_g(newScores)
        newEmotion == deriveEmotionState_g(newScores, raw)
        readings1 == updateBioBaseline(h.bioReadings, raw.bio)
        newCurrentState == computePlantCurrentState(readings1, raw)
        readings2 == updateBioBaseline(readings1, raw.bio)
        prevM == h.refs.prevMetrics
        smooth == smoothMetrics(prevM[1], newMetrics)
        publish ==
            IF prevM = Null THEN Some(newMetrics)
            ELSE IF majorChange(smooth, prevM[1]) \/ h.refs.realtimeOverride
                 THEN Some(smooth)
            ELSE Null
    IN  [now |-> h.now,
         store |-> IF watered THEN [h.store EXCEPT !.last = h.now] ELSE h.store,
         refs |->
            [prevEmotion |-> newEmotion,
             prevScores |-> newScores,
             prevMetrics |-> IF publish = Null THEN prevM ELSE publish,
             realtimeOverride |-> h.refs.realtimeOverride,
             lastWateredAt |-> lastWateredAt,
             wetStreak |-> IF watered THEN 0 ELSE streak,
             gi |-> gas.gi,
             mq2Window |-> w,
             highZHits |-> gas.highZHits],
         state |->
            [h.state EXCEPT
                !.rawVitals = raw,
                !.scores = newScores,
                !.metrics = IF publish = Null THEN @ ELSE publish,
                !.mood = newMood,
                !.emotion = newEmotion,
                !.currentState = Some(newCurrentState),
                !.vitals = displayVitals(newScores),
                !.eventLog = eventLogUpdate(@, h.refs.prevEmotion, newEmotion,
                                            getEmotionMessage_g(newEmotion),
                                            h.now),
                !.pendingReminder = reminderUpdate(@, newScores, h.now)],
         closure |-> h.closure,
         bioReadings |-> readings2,
         sample |->
            [raw |-> raw,
             moistureIndex |-> baseMetrics.moistureIndex,
             wi |-> wi,
             lastWateredAt |-> lastWateredAt,
             watered |-> watered,
             highZ |-> highZ,
             giBefore |-> h.refs.gi,
             gi |-> gas.gi,
             hitsBefore |-> h.refs.highZHits,
             spikeConfirmed |-> hits >= REQUIRED_SPIKE_HITS,
             highZHits |-> gas.highZHits,
             pcs |-> newMetrics.pcs,
             published |-> publish # Null,
             smooth |-> IF prevM = Null THEN newMetrics ELSE smooth,
             care |-> h.closure.careTargets,
             realtime |-> h.refs.realtimeOverride,
             wetStreakBefore |-> h.refs.wetStreak,
             emotion |-> newEmotion,
             appended |-> newEmotion # h.refs.prevEmotion,
             logLenBefore |-> Len(h.state.eventLog)]]

\* The effect of lines 925-950, run on mount and again whenever careTargets
\* changes: the displayed state and the three "previous" refs are set from
\* DEFAULT_RAW_VITALS.
initialStateEffect(h) ==
    LET initialScores == computeScores(DEFAULT_RAW_VITALS)
        initialMetrics ==
            computeComfortMetrics(DEFAULT_RAW_VITALS,
                                  careOf(h.state.careTargets))
        initialEmotion == deriveEmotionState_g(initialScores, DEFAULT_RAW_VITALS)
        readings1 == updateBioBaseline(h.bioReadings, DEFAULT_RAW_VITALS.bio)
        initialState == computePlantCurrentState(readings1, DEFAULT_RAW_VITALS)
        readings2 == updateBioBaseline(readings1, DEFAULT_RAW_VITALS.bio)
    IN  [h EXCEPT
            !.state.scores = initialScores,
            !.state.metrics = Some(initialMetrics),
            !.state.mood = deriveMood_g(initialScores),
            !.state.emotion = initialEmotion,
            !.state.currentState = Some(initialState),
            !.state.vitals = displayVitals(initialScores),
            !.refs.prevEmotion = initialEmotion,
            !.refs.prevScores = initialScores,
            !.refs.prevMetrics = Some(initialMetrics),
            !.bioReadings = readings2]

\* usePlantState as constructed (lines 806-836), before its effects run.
\* benchmarkDays 8.5 is 85 tenths; Gi 1.0 is Unit.
Constructed(startTick, stored) ==
    [now |-> startTick,
     store |-> stored,
     refs |->
        [prevEmotion |-> "I_AM_OKAY",
         prevScores |-> [hydrationScore |-> 60, comfortScore |-> 75,
                         airQualityScore |-> 80, bioSignalScore |-> 50],
         prevMetrics |-> Null,
         realtimeOverride |-> FALSE,
         lastWateredAt |-> 0,
         wetStreak |-> 0,
         gi |-> Unit,
         mq2Window |-> <<>>,
         highZHits |-> 0],
     state |->
        [rawVitals |-> DEFAULT_RAW_VITALS,
         scores |-> [hydrationScore |-> 60, comfortScore |-> 75,
                     airQualityScore |-> 80, bioSignalScore |-> 50],
         metrics |-> Null,
         mood |-> "ok",
         emotion |-> "I_AM_OKAY",
         currentState |-> Null,
         vitals |-> [health |-> 85, water |-> 60, sunlight |-> 75, soil |-> 70],
         eventLog |-> <<>>,
         pendingReminder |-> Null,
         careTargets |-> Null,
         benchmarkDays |-> 85],
     closure |-> [careTargets |-> Null, benchmarkDays |-> 85],
     bioReadings |-> <<>>]

\* The hook after its first render and the synchronous part of its mount
\* effects: the effect of lines 925-950 has run, the two asynchronous loads
\* (lines 864-887 and 953-989) are pending.
Mounted(startTick, stored) == initialStateEffect(Constructed(startTick, stored))

(***************************************************************************)
(* usePlantState, earlier revision                                         *)
(* (src/plant-whisperer/src/hooks/usePlantState.ts): scores, mood, emotion,*)
(* event log and reminder from the deadzone revision of plantModel.ts,     *)
(* without comfort metrics, watering index and gas index.  Its names carry *)
(* the suffix _v1.                                                         *)
(***************************************************************************)

\* Lines 71-79; bio 8.0.
DEFAULT_RAW_VITALS_v1 ==
    [soilMoisture |-> U(550), temperature |-> U(23), humidity |-> U(60),
     mq2 |-> U(200), raindrop |-> U(900), bio |-> U(8)]

\* setMq2Baseline(200) of line 118.
Mq2Baseline_v1 == U(200)

\* Lines 102-114.
computeScores_v1(raw) ==
    [hydrationScore |-> computeHydrationScore(raw.soilMoisture, raw.raindrop),
     comfortScore |-> computeComfortScore(raw.temperature, raw.humidity),
     airQualityScore |-> computeAirQualityScore(raw.mq2, Mq2Baseline_v1),
     bioSignalScore |-> computeBioSignalScore(raw.bio)]

\* One run of updateStateFromRawVitals (lines 140-191) at time nowTick on
\* the hook l = [refs, state, seen, nSamples]; seen keeps what the run
\* computed for the latest samples.
updateStateFromRawVitals_v1(l, raw, nowTick, keep) ==
    LET newScores == computeScores_v1(raw)
        newEmotion == deriveEmotionState(newScores, raw)
        sample == [raw |-> raw,
                   emotion |-> newEmotion,
                   appended |-> newEmotion # l.refs.prevEmotion,
                   logLenBefore |-> Len(l.state.eventLog)]
        all == Append(l.seen, sample)
    IN  [refs |-> [prevEmotion |-> newEmotion, prevScores |-> Some(newScores)],
         state |->
            [rawVitals |-> raw,
             scores |-> newScores,
             mood |-> deriveMood(newScores),
             emotion |-> newEmotion,
             vitals |-> displayVitals(newScores),
             eventLog |-> eventLogUpdate(l.state.eventLog, l.refs.prevEmotion,
                                         newEmotion,
                                         getEmotionMessage(newEmotion), nowTick),
             pendingReminder |-> reminderUpdate(l.state.pendingReminder,
                                                newScores, nowTick)],
         seen |-> IF Len(all) > keep THEN Tail(all) ELSE all,
         nSamples |-> l.nSamples + 1]

\* The hook as constructed (lines 83-99).
Constructed_v1 ==
    [refs |-> [prevEmotion |-> "I_AM_OKAY", prevScores |-> Null],
     state |->
        [rawVitals |-> DEFAULT_RAW_VITALS_v1,
         scores |-> [hydrationScore |-> 60, comfortScore |-> 75,
                     airQualityScore |-> 80, bioSignalScore |-> 50],
         mood |-> "ok",
         emotion |-> "I_AM_OKAY",
         vitals |-> [health |-> 85, water |-> 60, sunlight |-> 75, soil |-> 70],
         eventLog |-> <<>>,
         pendingReminder |-> Null],
     seen |-> <<>>,
     nSamples |-> 0]

\* The hook after its mount effect (lines 117-137), which runs once.
Mounted_v1 ==
    LET initialScores == computeScores_v1(DEFAULT_RAW_VITALS_v1)
        initialEmotion ==
            deriveEmotionState(initialScores, DEFAULT_RAW_VITALS_v1)
    IN  [Constructed_v1 EXCEPT
            !.state.scores = initialScores,
            !.state.mood = deriveMood(initialScores),
            !.state.emotion = initialEmotion,
            !.state.vitals = displayVitals(initialScores),
            !.refs.prevEmotion = initialEmotion,
            !.refs.prevScores = Some(initialScores)]

(***************************************************************************)
(* dataClient.ts: the WebSocket client, and the effect and the callbacks   *)
(* of the earlier hook that drive it (usePlantState.ts, lines 220-312)     *)
(***************************************************************************)

\* The client c = [ws, status, onUpdateCallback, isConnecting,
\* isDisconnecting] with the sockets it created (ws is an index into
\* sockets, 0 for null; handlers tells whether the socket still carries the
\* client's onopen, onmessage and onclose), and of the hook the state
\* simulationMode and connectionStatus, the mode a setSimulationModeState
\* call has queued for the next render, whether the connection effect is
\* due, whether its last run returned a cleanup, and whether the hook's
\* status listener is registered.  closes and closeCode record the onclose
\* calls, simCalls the setSimulatedVitals calls.
ClientConstructed ==
    [ws |-> 0, status |-> "idle", onUpdateCallback |-> FALSE,
     isConnecting |-> FALSE, isDisconnecting |-> FALSE, sockets |-> <<>>,
     subscribed |-> FALSE, connectionStatus |-> "idle",
     simulationMode |-> FALSE, pendingMode |-> <<>>, effect |-> "due",
     cleanup |-> FALSE, closes |-> 0, closeCode |-> 0, simCalls |-> 0]

\* setStatus (lines 38-41): the status listeners are called.
setStatus(c, status) ==
    [c EXCEPT !.status = status,
              !.connectionStatus = IF c.subscribed THEN status ELSE @]

\* connect (lines 58-184) with a well-formed URL.
connect(c) ==
    LET c1 == [c EXCEPT !.onUpdateCallback = TRUE]
        live == /\ c1.ws # 0
                /\ c1.sockets[c1.ws].readyState \in {"OPEN", "CONNECTING"}
        c2 == [c1 EXCEPT !.ws = 0]
        c3 == setStatus([c2 EXCEPT !.isConnecting = TRUE], "connecting")
    IN  IF live THEN c1
        ELSE IF c2.isConnecting THEN c2
        ELSE [c3 EXCEPT
                !.sockets = Append(@, [readyState |-> "CONNECTING",
                                       handlers |-> TRUE]),
                !.ws = Len(c3.sockets) + 1]

\* disconnect (lines 189-224).
disconnect(c) ==
    LET c1 == [c EXCEPT !.isDisconnecting = TRUE, !.isConnecting = FALSE]
        c2 == IF c1.ws = 0 THEN c1
              ELSE [c1 EXCEPT
                      !.sockets[c1.ws] =
                          [readyState |->
                              IF @.readyState \in {"OPEN", "CONNECTING"}
                              THEN "CLOSING" ELSE @.readyState,
                           handlers |-> FALSE],
                      !.ws = 0]
    IN  [setStatus(c2, "idle") EXCEPT !.onUpdateCallback = FALSE]

\* ws.onopen (lines 90-106).
onopen(c) == setStatus([c EXCEPT !.isConnecting = FALSE], "connected")

\* ws.onclose (lines 141-177) for a close event with the given code.
onclose(c, code) ==
    LET wasDisconnecting == c.isDisconnecting
        c1 == [c EXCEPT !.isConnecting = FALSE, !.isDisconnecting = FALSE,
                        !.ws = 0, !.closes = @ + 1, !.closeCode = code]
    IN  IF wasDisconnecting \/ code \in {1000, 1001}
        THEN setStatus(c1, "idle")
        ELSE setStatus(c1, "error")

\* The connection effect (lines 220-277): the cleanup of its previous run,
\* then its body.
connectionEffect(c) ==
    LET cleaned == IF c.cleanup
                   THEN disconnect([c EXCEPT !.subscribed = FALSE])
                   ELSE c
    IN  IF cleaned.simulationMode
        THEN [disconnect(cleaned) EXCEPT !.cleanup = FALSE, !.effect = "done"]
        ELSE [connect(cleaned) EXCEPT !.subscribed = TRUE, !.cleanup = TRUE,
                                      !.effect = "done"]

\* setSimulationMode (lines 280-286).
setSimulationMode_v1(c, enabled) ==
    LET c1 == [c EXCEPT !.pendingMode = <<enabled>>]
    IN  IF enabled
        THEN [disconnect(c1) EXCEPT !.connectionStatus = "idle"]
        ELSE c1

\* A variant of setSimulatedVitals without the guard of line 290: claim
\* C23 must tell the two apart.
setSimulatedVitals_noGuard(simulationMode, l, vitals, nowTick, keep) ==
    updateStateFromRawVitals_v1(
        l, [l.state.rawVitals EXCEPT !.soilMoisture = vitals.soil],
        nowTick, keep)

\* The hook after setSimulatedVitals(vitals) (lines 289-304) for vitals
\* that name the soil reading; simulationMode is the value of the render
\* that created the callback.
setSimulatedVitals(simulationMode, l, vitals, nowTick, keep) ==
    IF ~simulationMode THEN l
    ELSE updateStateFromRawVitals_v1(
            l, [l.state.rawVitals EXCEPT !.soilMoisture = vitals.soil],
            nowTick, keep)

(***************************************************************************)
(* The sensor servers: the mock server (server.ts of the mock server), and *)
(* the first and the unified server of Final Server/server.ts              *)
(***************************************************************************)

Builds == {"mock", "first", "unified"}

Fields == {"soil", "temp", "hum", "mq2", "rain", "bio"}

\* A field value that is not a number (a string, null, an object).
Text == -1

\* typeof json.f === 'number'; a sensor state is a function from the
\* fields it holds to their values.
isNumber(json, f) == f \in DOMAIN json /\ json[f] # Text

\* The six typeof tests of parseSensorData and of the POST handlers.
validSensorState(json) == \A f \in Fields : isNumber(json, f)

\* formatStateLine returns: Math.round takes anything, toFixed exists on
\* numbers only, so temp, hum and bio must be numbers.
canFormat(sensorState) ==
    \A f \in {"temp", "hum", "bio"} : isNumber(sensorState, f)

\* The state each server starts with.
InitialSensorState(build) ==
    IF build = "unified"
    THEN [soil |-> 550, temp |-> 23, hum |-> 60, mq2 |-> 70, rain |-> 1020,
          bio |-> 500]
    ELSE [soil |-> 550, temp |-> 23, hum |-> 60, mq2 |-> 200, rain |-> 900,
          bio |-> 8]

\* The text of the accumulation buffer as tokens: braces, the text before
\* the inner object ("h"), the six fields ("f"), fewer fields ("g"), other
\* text ("x").  JSON.parse accepts ObjectText and PartialObjectText and
\* throws on every other text that is not empty.
ObjectText == <<"{", "h", "{", "f", "}", "}">>
PartialObjectText == <<"{", "h", "{", "g", "}", "}">>

\* Characters of a token and of a chunk.
CharsOf(token) ==
    CASE token = "h" -> 60 [] token = "f" -> 50 [] token = "g" -> 30
      [] OTHER -> 1

RECURSIVE CharsIn(_)
CharsIn(text) == IF text = <<>> THEN 0 ELSE CharsOf(Head(text)) + CharsIn(Tail(text))

\* The buffer length above which a text that does not parse is dropped.
BUFFER_LIMIT == 2000

\* Lengths are counted up to BufferCap.
BufferCap == BUFFER_LIMIT + 400

\* jsonBuffer += chunk.  A text of more than six tokens is no object and
\* no later chunk makes it one: its first and last token are kept, which
\* startsWith and endsWith read.
appendChunk(jsonBuffer, chunk) ==
    LET text == jsonBuffer.text \o chunk
    IN  [len |-> Min(BufferCap, jsonBuffer.len + CharsIn(chunk)),
         text |-> IF Len(text) > Len(ObjectText)
                  THEN <<text[1], "~", text[Len(text)]>>
                  ELSE text]

RECURSIVE braceDelta(_)
\* The change of braceCount over a chunk (the loop of lines 972-978).
braceDelta(chunk) ==
    IF chunk = <<>> THEN 0
    ELSE (CASE Head(chunk) = "{" -> 1 [] Head(chunk) = "}" -> -1 [] OTHER -> 0)
         + braceDelta(Tail(chunk))

EmptyBuffer == [len |-> 0, text |-> <<>>]

\* The reading a well-formed serial object carries.
SerialReading ==
    [soil |-> 600, temp |-> 24, hum |-> 55, mq2 |-> 80, rain |-> 1000,
     bio |-> 480]

\* The server v = [build, mode, currentState, streamInterval,
\* streamIntervalMs, jsonBuffer, braceCount] as started, with the timers
\* setInterval holds (streamInterval is a timer id, 0 for null), the number
\* of connected clients, whether an uncaught exception ended the process,
\* and of the latest handler run its kind, the interval it asked for, what
\* it sent (out) and the HTTP status it answered with.
ServerStarted(build) ==
    [build |-> build,
     mode |-> "real",
     currentState |-> InitialSensorState(build),
     streamInterval |-> 0,
     streamIntervalMs |-> 1000,
     timers |-> {},
     nextTimer |-> 1,
     clients |-> 0,
     jsonBuffer |-> EmptyBuffer,
     braceCount |-> 0,
     crashed |-> FALSE,
     clean |-> FALSE,
     garbage |-> 0,
     event |-> "none",
     requested |-> <<>>,
     out |-> "none",
     response |-> 0]

\* A handler starts.
handling(v, event) ==
    [v EXCEPT !.event = event, !.requested = <<>>, !.out = "none",
              !.response = 0]

\* updateStateFromSensorData (lines 785-801; lines 119-121 of the mock
\* server): the state is replaced, then formatted and broadcast.  When
\* formatStateLine throws the state stays replaced and nothing is sent.
updateStateFromSensorData(v, newState) ==
    [v EXCEPT !.currentState = newState,
              !.out = IF canFormat(newState) THEN "broadcast" ELSE "none"]

\* A variant of startStream that does not clear the running timer: claim
\* C26 must tell the two apart.
startStream_keepsTimer(v, intervalMs) ==
    [v EXCEPT !.timers = @ \cup {[id |-> v.nextTimer, ms |-> intervalMs]},
              !.streamInterval = v.nextTimer,
              !.streamIntervalMs = intervalMs,
              !.nextTimer = @ + 1]

\* startStream (lines 824-835).
startStream(v, intervalMs) ==
    [v EXCEPT !.timers = {t \in @ : t.id # v.streamInterval}
                            \cup {[id |-> v.nextTimer, ms |-> intervalMs]},
              !.streamInterval = v.nextTimer,
              !.streamIntervalMs = intervalMs,
              !.nextTimer = @ + 1]

\* stopStream (lines 838-843).
stopStream(v) ==
    IF v.streamInterval # 0
    THEN [v EXCEPT !.timers = {t \in @ : t.id # v.streamInterval},
                   !.streamInterval = 0]
    ELSE v

\* The connection handler (lines 846-857): the state is sent to the new
\* client, outside any try, and streaming starts when no timer is set.
onConnection(v) ==
    LET v1 == [handling(v, "connection") EXCEPT !.clients = @ + 1]
    IN  IF ~canFormat(v.currentState) THEN [v1 EXCEPT !.crashed = TRUE]
        ELSE IF v1.streamInterval = 0
            THEN [startStream(v1, 1000) EXCEPT !.out = "sent"]
        ELSE [v1 EXCEPT !.out = "sent"]

\* A variant of the 'set' branch of the unified server without the mode
\* test: claim C25 must tell the two apart.
onSetMessage_anyMode(v, message) ==
    IF v.build = "first" THEN v
    ELSE IF message.state # <<>>
        THEN updateStateFromSensorData(v, message.state[1])
    ELSE v

\* The 'set' branch: lines 117-123 of the mock server, lines 875-883 of the
\* unified server; the first server knows no 'set'.
onSetMessage(v, message) ==
    IF v.build = "first" THEN v
    ELSE IF v.build = "unified" /\ v.mode # "mock" THEN v
    ELSE IF message.state # <<>>
        THEN updateStateFromSensorData(v, message.state[1])
    ELSE v

\* ws.on('message') (lines 859-907) for a message [type, intervalMs, state,
\* mode] that parses; intervalMs and state are <<>> when absent.
onMessage(v, message) ==
    LET v1 == [handling(v, message.type) EXCEPT
                  !.requested = message.intervalMs]
    IN  CASE message.type = "start" ->
                startStream(v1, IF message.intervalMs = <<>>
                                   \/ message.intervalMs[1] = 0
                                THEN 1000 ELSE message.intervalMs[1])
          [] message.type = "stop" -> stopStream(v1)
          [] message.type = "set" -> onSetMessage(v1, message)
          [] message.type = "setMode" ->
                IF v.build = "unified" THEN [v1 EXCEPT !.mode = message.mode]
                ELSE v1

\* The body of the two POST handlers after the mode test (lines 617-661
\* and 670-714): payload.json when it is an object, else the payload when
\* it has the six numbers, else 400; then the six typeof tests.
acceptSensorPayload(v, payload) ==
    LET json == IF payload.json # <<>> THEN payload.json[1] ELSE payload.flat
    IN  IF payload.json = <<>> /\ ~validSensorState(payload.flat)
        THEN [v EXCEPT !.response = 400]
        ELSE IF validSensorState(json)
            THEN [updateStateFromSensorData(v, json) EXCEPT !.response = 200]
        ELSE [v EXCEPT !.response = 400]

\* POST /api/mock/sensors (lines 612-662), unified server.
postMockSensors(v, payload) ==
    LET v1 == handling(v, "postMockSensors")
    IN  IF v.mode # "mock" THEN [v1 EXCEPT !.response = 400]
        ELSE acceptSensorPayload(v1, payload)

\* POST /sensors (lines 665-715); in the first server (lines 72-127)
\* without the mode test.
postSensors(v, payload) ==
    LET v1 == handling(v, "postSensors")
    IN  IF v.build = "unified" /\ v.mode # "real"
        THEN [v1 EXCEPT !.response = 400]
        ELSE acceptSensorPayload(v1, payload)

\* POST /api/mode (lines 584-609) with a valid mode.
postMode(v, mode) ==
    [handling(v, "postMode") EXCEPT !.mode = mode, !.response = 200]

\* serialPort.on('data') (lines 960-1030; lines 331-396 of the first
\* server, which has no mode test).
onSerialData(v, chunk) ==
    LET v1 == handling(v, "serial")
        buffered == appendChunk(v.jsonBuffer, chunk)
        count == v.braceCount + braceDelta(chunk)
        keep == [v1 EXCEPT !.jsonBuffer = buffered, !.braceCount = count]
        reset == [v1 EXCEPT !.jsonBuffer = EmptyBuffer, !.braceCount = 0]
        text == buffered.text
    IN  IF v.build = "unified" /\ v.mode # "real" THEN v1
        ELSE IF count = 0 /\ text # <<>>
            THEN IF text[1] = "{" /\ text[Len(text)] = "}"
                 THEN IF text = ObjectText
                      THEN updateStateFromSensorData(reset, SerialReading)
                      ELSE IF text = PartialObjectText THEN reset
                      ELSE IF buffered.len > BUFFER_LIMIT THEN reset
                      ELSE keep
                 ELSE IF buffered.len > BUFFER_LIMIT THEN reset
                 ELSE keep
        ELSE IF count < 0 THEN reset
        ELSE keep

\* The callback of setInterval (lines 829-834): no try surrounds it, so a
\* state formatStateLine throws on ends the process.
onStreamTick(v) ==
    LET v1 == handling(v, "tick")
    IN  IF canFormat(v.currentState) THEN [v1 EXCEPT !.out = "periodic"]
        ELSE [v1 EXCEPT !.crashed = TRUE]

(***************************************************************************)
(* State                                                                   *)
(***************************************************************************)

VARIABLES
    probe,          \* the latest evaluation of a score normalizer
    derived,        \* the latest evaluation of deriveEmotionState
    now,            \* Date.now(), in ticks
    store,          \* AsyncStorage: watering:last and watering:benchDays
    refs,           \* the useRef values of the hook
    state,          \* the useState values of the hook
    closure,        \* what the current updateStateFromRawVitals captured
    bioReadings,    \* the module-level window of plantModel.ts
    client,         \* the data client and the hook's connection effect
    server,         \* one of the sensor servers
    careLoad,       \* the cache read of lines 864-887
    wateringLoad,   \* the asynchronous load of lines 953-989
    seen,           \* the values computed for the latest samples, oldest first
    nSamples,       \* the number of samples that seen has recorded
    hook_v1         \* the earlier revision of the hook, in a build that has it

hookVars ==
    <<now, store, refs, state, closure, bioReadings, careLoad, wateringLoad,
      seen, nSamples, hook_v1, client, server>>

vars == <<probe, derived, hookVars>>

\* The hook as one value, and the variables set from one.
Hook ==
    [now |-> now, store |-> store, refs |-> refs, state |-> state,
     closure |-> closure, bioReadings |-> bioReadings]

HookIs(h) ==
    /\ now = h.now
    /\ store = h.store
    /\ refs = h.refs
    /\ state = h.state
    /\ closure = h.closure
    /\ bioReadings = h.bioReadings

HookBecomes(h) ==
    /\ now' = h.now
    /\ store' = h.store
    /\ refs' = h.refs
    /\ state' = h.state
    /\ closure' = h.closure
    /\ bioReadings' = h.bioReadings

\* The first tick of a run, ten days after the epoch.
StartTick == 10 * TicksPerDay

\* A store that holds neither key.
EmptyStore == [last |-> 0, bench |-> 0]

\* The loads as they are when the hook has just mounted.
LoadsPending ==
    /\ careLoad = "pending"
    /\ wateringLoad = [pc |-> "reading", lastRaw |-> 0, benchRaw |-> 0]

(***************************************************************************)
(* Evaluations of the pure functions.  Each action draws the arguments of  *)
(* one function at two points a and b (b at most MaxStep model units above *)
(* a in the reading that is swept) and records both results.               *)
(***************************************************************************)

\* Largest distance, in model units, between the two points of a probe.
MaxStep == 3

Steps == 0..MaxStep

SoilInputs == {U(-50), U(0), U(2000)} \cup (U(140)..U(160)) \cup (U(340)..U(1030))
RainInputs == {U(0), U(400) - 1, U(400), U(1020)}
TempInputs == {U(-40), U(100)} \cup (U(-2)..U(40))
HumInputs == {U(-10), U(300)} \cup (U(-2)..U(105))
Mq2Inputs == {U(-5), U(5000)} \cup (U(60)..U(520)) \cup (U(790)..U(810))
BaselineInputs == {U(-1), U(0), U(70), U(200)}
BioInputs == {U(-3), U(5000)} \cup (U(-1)..U(130)) \cup (U(390)..U(410))
                \cup (U(590)..U(610)) \cup (U(890)..U(910)) \cup (U(1015)..U(1030))

ScoreInputs ==
    { [hydrationScore |-> h, comfortScore |-> c, airQualityScore |-> q,
       bioSignalScore |-> s] :
        h \in {5, 10, 11, 29, 30, 59, 60, 79, 80}, c \in {79, 80},
        q \in {39, 40, 70}, s \in {19, 20, 40} }

VitalsInputs ==
    { [soilMoisture |-> soil, temperature |-> temp, humidity |-> hum,
       mq2 |-> mq2, raindrop |-> rain, bio |-> U(500)] :
        soil \in {U(550), U(700), U(900)},
        temp \in {U(13) - 1, U(13), U(15), U(15) + 1, U(27) + 1, U(30)},
        hum \in {U(60), U(80), U(80) + 1},
        mq2 \in {U(70), U(150)},
        rain \in {U(300) - 1, U(300), U(400) - 1, U(400)} }

Evaluated(fn, a, b, fa, fb) == [fn |-> fn, a |-> a, b |-> b, fa |-> fa, fb |-> fb]

NoProbe == Evaluated("none", <<>>, <<>>, 0, 0)

Derived(fn, scores, vitals, label) ==
    [fn |-> fn, scores |-> scores, vitals |-> vitals, label |-> label]

NoneDerived ==
    Derived("none",
        [hydrationScore |-> 0, comfortScore |-> 0, airQualityScore |-> 0,
         bioSignalScore |-> 0],
        [soilMoisture |-> 0, temperature |-> 0, humidity |-> 0, mq2 |-> 0,
         raindrop |-> 0, bio |-> 0],
        "none")

\* Nothing has been evaluated yet: every evaluation starts from here.
Idle == probe = NoProbe /\ derived = NoneDerived

ProbeHydration ==
    /\ Idle
    /\ UNCHANGED <<derived, hookVars>>
    /\ \E soil \in SoilInputs, d \in Steps, ra \in RainInputs, rb \in RainInputs :
        \/ probe' = Evaluated("computeHydrationScore",
                        <<soil, ra>>, <<soil + d, rb>>,
                        computeHydrationScore(soil, ra),
                        computeHydrationScore(soil + d, rb))
        \/ probe' = Evaluated("computeHydrationScore_g",
                        <<soil, ra>>, <<soil + d, rb>>,
                        computeHydrationScore_g(soil, ra),
                        computeHydrationScore_g(soil + d, rb))

ProbeTemp ==
    /\ Idle
    /\ UNCHANGED <<derived, hookVars>>
    /\ \E temp \in TempInputs, d \in Steps :
        \/ probe' = Evaluated("computeTempScore", <<temp>>, <<temp + d>>,
                        computeTempScore(temp), computeTempScore(temp + d))
        \/ probe' = Evaluated("computeTempScore_g", <<temp>>, <<temp + d>>,
                        computeTempScore_g(temp), computeTempScore_g(temp + d))

ProbeHum ==
    /\ Idle
    /\ UNCHANGED <<derived, hookVars>>
    /\ \E hum \in HumInputs, d \in Steps :
        \/ probe' = Evaluated("computeHumScore", <<hum>>, <<hum + d>>,
                        computeHumScore(hum), computeHumScore(hum + d))
        \/ probe' = Evaluated("computeHumScore_g", <<hum>>, <<hum + d>>,
                        computeHumScore_g(hum), computeHumScore_g(hum + d))

ProbeComfort ==
    /\ Idle
    /\ UNCHANGED <<derived, hookVars>>
    /\ \E temp \in {U(-40), U(12), U(19), U(23), U(28), U(100)},
       hum \in {U(-10), U(37), U(52), U(60), U(75), U(300)}, d \in Steps :
        \/ probe' = Evaluated("computeComfortScore",
                        <<temp, hum>>, <<temp + d, hum + d>>,
                        computeComfortScore(temp, hum),
                        computeComfortScore(temp + d, hum + d))
        \/ probe' = Evaluated("computeComfortScore_g",
                        <<temp, hum>>, <<temp + d, hum + d>>,
                        computeComfortScore_g(temp, hum),
                        computeComfortScore_g(temp + d, hum + d))

ProbeAirQuality ==
    /\ Idle
    /\ UNCHANGED <<derived, hookVars>>
    /\ \E mq2 \in Mq2Inputs, d \in Steps :
        \/ \E baseline \in BaselineInputs :
             probe' = Evaluated("computeAirQualityScore",
                        <<mq2, baseline>>, <<mq2 + d, baseline>>,
                        computeAirQualityScore(mq2, baseline),
                        computeAirQualityScore(mq2 + d, baseline))
        \/ probe' = Evaluated("computeAirQualityScore_g", <<mq2>>, <<mq2 + d>>,
                        computeAirQualityScore_g(mq2),
                        computeAirQualityScore_g(mq2 + d))

ProbeBioSignal ==
    /\ Idle
    /\ UNCHANGED <<derived, hookVars>>
    /\ \E bio \in BioInputs, d \in Steps :
        \/ probe' = Evaluated("computeBioSignalScore", <<bio>>, <<bio + d>>,
                        computeBioSignalScore(bio), computeBioSignalScore(bio + d))
        \/ probe' = Evaluated("computeBioSignalScore_g", <<bio>>, <<bio + d>>,
                        computeBioSignalScore_g(bio),
                        computeBioSignalScore_g(bio + d))

ProbeOverallHealth ==
    /\ Idle
    /\ UNCHANGED <<derived, hookVars>>
    /\ \E soil \in {U(-50), U(100), U(550), U(700) - 1, U(800), U(2000)},
       temp \in {U(-40), U(11), U(20), U(29), U(100)},
       hum \in {U(-10), U(37), U(55), U(75), U(300)},
       mq2 \in {U(-5), U(70), U(120), U(180), U(5000)} :
        probe' = Evaluated("computeOverallHealth",
                    <<soil, temp, hum, mq2>>, <<soil, temp, hum, mq2>>,
                    computeOverallHealth(soil, temp, hum, mq2),
                    computeOverallHealth(soil, temp, hum, mq2))

ProbeEmotion ==
    /\ Idle
    /\ UNCHANGED <<probe, hookVars>>
    /\ \E scores \in ScoreInputs, vitals \in VitalsInputs :
        \/ derived' = Derived("deriveEmotionState", scores, vitals,
                          deriveEmotionState(scores, vitals))
        \/ derived' = Derived("deriveEmotionState_g", scores, vitals,
                          deriveEmotionState_g(scores, vitals))

InitScores ==
    /\ probe = NoProbe
    /\ derived = NoneDerived
    /\ HookIs(Mounted(StartTick, EmptyStore))
    /\ LoadsPending
    /\ seen = <<>>
    /\ nSamples = 0
    /\ hook_v1 = Mounted_v1
    /\ client = ClientConstructed
    /\ server = ServerStarted("unified")

NextScores ==
    \/ ProbeHydration
    \/ ProbeTemp
    \/ ProbeHum
    \/ ProbeComfort
    \/ ProbeAirQuality
    \/ ProbeBioSignal
    \/ ProbeOverallHealth
    \/ ProbeEmotion

\* The pure functions of both revisions, evaluated over the input sets.
SpecScores == InitScores /\ [][NextScores]_vars

(***************************************************************************)
(* usePlantState: the hook's steps                                         *)
(***************************************************************************)

\* Number of samples whose computed values are kept in seen.
KeepSamples == 4

\* Samples per run of the tracker, and of the gas runs.
MaxSamples == 3
MaxGasSamples == 6

\* Longest quiet history (default readings) a gas run starts from.
MaxWarmup == 58

\* Days the clock may advance in a run.
MaxDays == 6

Remember(samples, sample) ==
    LET all == Append(samples, sample)
    IN  IF Len(all) > KeepSamples THEN Tail(all) ELSE all

\* dataClient delivers a sample of six numbers: handleSensorUpdateRef.current
\* (lines 1138-1151) runs updateStateFromRawVitals on it.
handleSensorUpdate(raw) ==
    LET h == updateStateFromRawVitals(Hook, raw)
    IN  /\ HookBecomes(h)
        /\ seen' = Remember(seen, h.sample)
        /\ nSamples' = nSamples + 1
        /\ UNCHANGED <<probe, derived, server, client, hook_v1, careLoad, wateringLoad>>

\* Readings of the tracker runs: soil halfway between the calibration
\* points and dry soil, wet and dry contact, the other sensors at their
\* defaults.
SampleInputs ==
    { [DEFAULT_RAW_VITALS EXCEPT !.soilMoisture = soil, !.raindrop = rain] :
        soil \in {U(625), U(SOIL_CAL_DRY)},
        rain \in {U(RAINDROP_PARTIAL_THRESHOLD) - 1, U(1020)} }

SensorUpdate ==
    /\ nSamples < MaxSamples
    /\ \E raw \in SampleInputs : handleSensorUpdate(raw)

\* Time passes, three days at a time.
Tick ==
    /\ now + 3 * TicksPerDay <= StartTick + MaxDays * TicksPerDay
    /\ now' = now + 3 * TicksPerDay
    /\ UNCHANGED <<probe, derived, server, client, hook_v1, store, refs, state, closure, bioReadings,
                   careLoad, wateringLoad, seen, nSamples>>

\* Care targets the Plantbook cache may hold: a profile with proper ranges
\* and one whose bounds coincide.
CachedCare ==
    { [max_temp |-> 30, min_temp |-> 12, max_env_humid |-> 80,
       min_env_humid |-> 40, max_soil_moist |-> 65, min_soil_moist |-> 20],
      [max_temp |-> 23, min_temp |-> 23, max_env_humid |-> 60,
       min_env_humid |-> 60, max_soil_moist |-> 50, min_soil_moist |-> 50] }

\* The cache read of lines 864-887 completes.  On a hit setCareTargets
\* re-renders: updateStateFromRawVitals is created anew (its dependency
\* careTargets changed) and the effect of lines 925-950 runs again.
CareTargetsLoaded ==
    /\ careLoad = "pending"
    /\ careLoad' = "done"
    /\ \/ \E pb \in CachedCare :
            LET h == [Hook EXCEPT
                        !.state.careTargets = Some(pb),
                        !.closure = [careTargets |-> Some(pb),
                                     benchmarkDays |-> state.benchmarkDays]]
            IN  HookBecomes(initialStateEffect(h))
       \/ UNCHANGED <<now, store, refs, state, closure, bioReadings>>
    /\ UNCHANGED <<probe, derived, server, client, hook_v1, wateringLoad, seen, nSamples>>

\* Lines 957-962: both keys are read from the store.
WateringStoreRead ==
    /\ wateringLoad.pc = "reading"
    /\ wateringLoad' = [pc |-> "loaded", lastRaw |-> store.last,
                        benchRaw |-> store.bench]
    /\ UNCHANGED <<probe, derived, server, client, hook_v1, now, store, refs, state, closure,
                   bioReadings, careLoad, seen, nSamples>>

\* Lines 963-970: the values read are applied.  An absent key reads as 0;
\* a benchmark of at most 0.1 days is ignored.
WateringStoredApplied ==
    /\ wateringLoad.pc = "loaded"
    /\ wateringLoad' = [wateringLoad EXCEPT !.pc = "fetching"]
    /\ refs' = IF wateringLoad.lastRaw # 0
               THEN [refs EXCEPT !.lastWateredAt = wateringLoad.lastRaw]
               ELSE refs
    /\ state' = IF wateringLoad.benchRaw > 1
                THEN [state EXCEPT !.benchmarkDays = wateringLoad.benchRaw]
                ELSE state
    /\ UNCHANGED <<probe, derived, server, client, hook_v1, now, store, closure, bioReadings, careLoad,
                   seen, nSamples>>

\* Benchmarks the care-profile lookup may answer with, in tenths of a day.
FetchedBenchmarks == {30}

\* Lines 972-980: the lookup answers with a benchmark, which is set and
\* written to the store.
WateringBenchmarkFetched ==
    /\ wateringLoad.pc = "fetching"
    /\ wateringLoad' = [wateringLoad EXCEPT !.pc = "checking"]
    /\ \E d \in FetchedBenchmarks :
        /\ state' = [state EXCEPT !.benchmarkDays = d]
        /\ store' = [store EXCEPT !.bench = d]
    /\ UNCHANGED <<probe, derived, server, client, hook_v1, now, refs, closure, bioReadings, careLoad,
                   seen, nSamples>>

\* Lines 981-985: a hook that still knows no watering time takes the
\* current time and stores it.
wateringFallback ==
    IF refs.lastWateredAt = 0
    THEN /\ refs' = [refs EXCEPT !.lastWateredAt = now]
         /\ store' = [store EXCEPT !.last = now]
    ELSE UNCHANGED <<refs, store>>

\* Lines 972-985 when the lookup fails or answers without a benchmark: the
\* check of line 981 follows without a pause.
WateringLookupFailed ==
    /\ wateringLoad.pc = "fetching"
    /\ wateringLoad' = [wateringLoad EXCEPT !.pc = "done"]
    /\ wateringFallback
    /\ UNCHANGED <<probe, derived, server, client, hook_v1, now, state, closure, bioReadings, careLoad,
                   seen, nSamples>>

\* Lines 981-985 after the benchmark was written.
WateringFallbackChecked ==
    /\ wateringLoad.pc = "checking"
    /\ wateringLoad' = [wateringLoad EXCEPT !.pc = "done"]
    /\ wateringFallback
    /\ UNCHANGED <<probe, derived, server, client, hook_v1, now, state, closure, bioReadings, careLoad,
                   seen, nSamples>>

\* What the store may hold when the hook mounts: nothing, or the watering
\* time and benchmark of an earlier session.
StoredAtMount ==
    {EmptyStore, [last |-> StartTick - 3 * TicksPerDay, bench |-> 30]}

Init ==
    /\ probe = NoProbe
    /\ derived = NoneDerived
    /\ \E stored \in StoredAtMount : HookIs(Mounted(StartTick, stored))
    /\ LoadsPending
    /\ seen = <<>>
    /\ nSamples = 0
    /\ hook_v1 = Mounted_v1
    /\ client = ClientConstructed
    /\ server = ServerStarted("unified")

Next ==
    \/ SensorUpdate
    \/ Tick
    \/ CareTargetsLoaded
    \/ WateringStoreRead
    \/ WateringStoredApplied
    \/ WateringBenchmarkFetched
    \/ WateringLookupFailed
    \/ WateringFallbackChecked

\* The hook from its mount on: samples, the clock and the two loads.
Spec == Init /\ [][Next]_vars

(***************************************************************************)
(* Gas runs: the hook from its mount on, first through a quiet history of  *)
(* default samples, then through samples that differ in the gas reading    *)
(* only.  seen and nSamples cover the samples after the quiet history.     *)
(***************************************************************************)

\* A sample of DEFAULT_RAW_VITALS while the history is quiet.
QuietSensorUpdate ==
    /\ nSamples = 0
    /\ Len(refs.mq2Window) < MaxWarmup
    /\ HookBecomes(updateStateFromRawVitals(Hook, DEFAULT_RAW_VITALS))
    /\ UNCHANGED <<probe, derived, server, client, hook_v1, careLoad, wateringLoad, seen, nSamples>>

\* Gas readings of the gas runs: the baseline and two raised levels.
GasInputs == {U(70), U(72), U(76)}

GasSensorUpdate ==
    /\ nSamples < MaxGasSamples
    /\ \E mq2 \in GasInputs :
        handleSensorUpdate([DEFAULT_RAW_VITALS EXCEPT !.mq2 = mq2])

InitGas ==
    /\ probe = NoProbe
    /\ derived = NoneDerived
    /\ HookIs(Mounted(StartTick, EmptyStore))
    /\ LoadsPending
    /\ seen = <<>>
    /\ nSamples = 0
    /\ hook_v1 = Mounted_v1
    /\ client = ClientConstructed
    /\ server = ServerStarted("unified")

NextGas == QuietSensorUpdate \/ GasSensorUpdate

SpecGas == InitGas /\ [][NextGas]_vars

(***************************************************************************)
(* Long runs: a hook from its mount on, through samples whose one reading  *)
(* moves by half a unit around a guard of deriveEmotionState, or jumps to  *)
(* its default.  A build mounts one revision of the hook, so a run feeds   *)
(* one of the two.  The clock advances in the runs of the earlier hook,    *)
(* which uses it for the event timestamps only; the clock of the current   *)
(* hook is exercised by Spec.                                              *)
(***************************************************************************)

\* Samples per long run.
MaxLogSamples == 22

\* Wetness contact below the watering guard of the guidelines revision
\* (300), and just below and at the partial-contact threshold (400).
NoisyInputs ==
    { [DEFAULT_RAW_VITALS EXCEPT !.raindrop = rain] :
        rain \in {U(300) - 1, U(RAINDROP_PARTIAL_THRESHOLD) - 1,
                  U(RAINDROP_PARTIAL_THRESHOLD)} }

NoisySensorUpdate ==
    /\ nSamples < MaxLogSamples
    /\ hook_v1.nSamples = 0
    /\ \E raw \in NoisyInputs : handleSensorUpdate(raw)

\* Temperature just below and at the heat guard of the deadzone revision
\* (30).
NoisyInputs_v1 ==
    { [DEFAULT_RAW_VITALS_v1 EXCEPT !.temperature = temp] :
        temp \in {U(30) - 1, U(30)} }

\* The earlier hook's handleSensorUpdateRef.current (lines 197-212).
handleSensorUpdate_v1(raw) ==
    /\ hook_v1' = updateStateFromRawVitals_v1(hook_v1, raw, now, KeepSamples)
    /\ UNCHANGED <<probe, derived, server, client, now, store, refs, state,
                   closure, bioReadings, careLoad, wateringLoad, seen, nSamples>>

NoisySensorUpdate_v1 ==
    /\ hook_v1.nSamples < MaxLogSamples
    /\ nSamples = 0
    /\ \E raw \in NoisyInputs_v1 : handleSensorUpdate_v1(raw)

\* Time passes between two samples of the earlier hook.
Tick_v1 == hook_v1.nSamples > 0 /\ Tick

NextNoise == NoisySensorUpdate \/ NoisySensorUpdate_v1 \/ Tick_v1

SpecNoise == InitGas /\ [][NextNoise]_vars

(***************************************************************************)
(* Short runs over varied samples: a hook from its mount on, through a few *)
(* samples that differ in soil moisture and temperature, with real-time    *)
(* mode switched at any time and, for the current hook, the care cache     *)
(* read completing at any time.                                            *)
(***************************************************************************)

\* Samples per short run.
MaxVariedSamples == 3

\* Soil readings whose hydration score (guidelines revision) is 100, 50, 23
\* and 7, and a temperature one degree off the default.
VariedInputs ==
    { [DEFAULT_RAW_VITALS EXCEPT !.soilMoisture = soil] :
        soil \in {U(550), U(850), U(950), U(1000)} }
    \cup { [DEFAULT_RAW_VITALS EXCEPT !.temperature = U(24)] }

VariedSensorUpdate ==
    /\ nSamples < MaxVariedSamples
    /\ hook_v1.nSamples = 0
    /\ \E raw \in VariedInputs : handleSensorUpdate(raw)

\* setRealtimeMode(enabled), line 1273.
SetRealtimeMode ==
    /\ hook_v1.nSamples = 0
    /\ \E enabled \in BOOLEAN :
        refs' = [refs EXCEPT !.realtimeOverride = enabled]
    /\ UNCHANGED <<probe, derived, server, client, hook_v1, now, store, state, closure,
                   bioReadings, careLoad, wateringLoad, seen, nSamples>>

\* Soil readings whose hydration score (deadzone revision) is 100, 40, 20,
\* 10 and 0, with dry and with wet contact.
VariedInputs_v1 ==
    { [DEFAULT_RAW_VITALS_v1 EXCEPT !.soilMoisture = soil, !.raindrop = rain] :
        soil \in {U(550), U(750), U(800), U(825), U(850)},
        rain \in {U(400) - 1, U(900)} }

VariedSensorUpdate_v1 ==
    /\ hook_v1.nSamples < MaxVariedSamples
    /\ nSamples = 0
    /\ careLoad = "pending"
    /\ \E raw \in VariedInputs_v1 : handleSensorUpdate_v1(raw)

\* The care cache read of the current hook completes.
VariedCareTargetsLoaded == hook_v1.nSamples = 0 /\ CareTargetsLoaded

NextVaried ==
    \/ VariedSensorUpdate
    \/ SetRealtimeMode
    \/ VariedCareTargetsLoaded
    \/ VariedSensorUpdate_v1

SpecVaried == InitGas /\ [][NextVaried]_vars

(***************************************************************************)
(* Claims about the pure functions (checked under SpecScores)              *)
(***************************************************************************)

\* The ordered guards of the claim, each with its label.
ClaimedGuards(scores, vitals) ==
    << <<vitals.raindrop < U(400) /\ scores.hydrationScore < 60,
         "I_AM_BEING_WATERED">>,
       <<scores.hydrationScore <= 10, "I_AM_NEARLY_DEAD">>,
       <<scores.hydrationScore > 10 /\ scores.hydrationScore < 30,
         "I_NEED_WATER">>,
       <<vitals.temperature >= U(30), "I_FEEL_HOT">>,
       <<vitals.temperature <= U(15), "I_FEEL_COLD">>,
       <<vitals.humidity >= U(80), "I_AM_SWEATING_THIS_IS_TOO_HUMID">>,
       <<scores.airQualityScore < 40, "AIR_FEELS_BAD">>,
       <<scores.bioSignalScore < 20, "CHECK_MY_CONNECTION">>,
       <<scores.hydrationScore >= 80 /\ scores.comfortScore >= 80
            /\ scores.airQualityScore >= 70 /\ scores.bioSignalScore >= 40,
         "I_FEEL_GREAT">>,
       <<TRUE, "I_AM_OKAY">> >>

FirstMatch(scores, vitals) ==
    LET g == ClaimedGuards(scores, vitals)
        i == CHOOSE k \in 1..Len(g) : g[k][1] /\ \A j \in 1..(k - 1) : ~g[j][1]
    IN  g[i][2]

\* C1: every deriveEmotionState of the repository returns one of the ten
\* labels, namely the label of the first guard of the claimed order that
\* matches the scores and the raw sample.
C1_FirstMatchingGuardWins ==
    derived.fn \in {"deriveEmotionState", "deriveEmotionState_g"} =>
        /\ derived.label \in EmotionStates
        /\ derived.label = FirstMatch(derived.scores, derived.vitals)

\* C1, restricted to the deadzone revision, where the claimed order is the
\* order of the code.
C1_DeadzoneRevisionOrder ==
    derived.fn = "deriveEmotionState" =>
        /\ derived.label \in EmotionStates
        /\ derived.label = FirstMatch(derived.scores, derived.vitals)

\* C2: a sample that indicates active watering (raindrop below the revision's
\* watering threshold, 400 resp. 300, with hydration score below 60) derives
\* I_AM_BEING_WATERED whatever the other readings are, a cold temperature
\* included.
C2_WateringDominates ==
    /\ ( /\ derived.fn = "deriveEmotionState"
         /\ derived.vitals.raindrop < U(400)
         /\ derived.scores.hydrationScore < 60 )
       => derived.label = "I_AM_BEING_WATERED"
    /\ ( /\ derived.fn = "deriveEmotionState_g"
         /\ derived.vitals.raindrop < U(300)
         /\ derived.scores.hydrationScore < 60 )
       => derived.label = "I_AM_BEING_WATERED"

\* C2 witness: a watered sample at or below the cold floor was derived.
C2_WateredWhileCold ==
    /\ derived.fn = "deriveEmotionState"
    /\ derived.vitals.raindrop < U(400)
    /\ derived.scores.hydrationScore < 60
    /\ derived.scores.hydrationScore > 30
    /\ derived.vitals.temperature <= U(15)
    /\ derived.label = "I_AM_BEING_WATERED"

Scorers ==
    {"computeHydrationScore", "computeTempScore", "computeHumScore",
     "computeComfortScore", "computeAirQualityScore", "computeBioSignalScore"}

Scorers_g ==
    {"computeHydrationScore_g", "computeTempScore_g", "computeHumScore_g",
     "computeComfortScore_g", "computeAirQualityScore_g",
     "computeBioSignalScore_g", "computeOverallHealth"}

\* C6: every score normalizer returns a score in 0..100 for every reading.
C6_ScoresInRange ==
    probe.fn \in Scorers \cup Scorers_g =>
        probe.fa \in 0..100 /\ probe.fb \in 0..100

\* C6, restricted to the deadzone revision.
C6_DeadzoneRevisionInRange ==
    probe.fn \in Scorers => probe.fa \in 0..100 /\ probe.fb \in 0..100

\* The sensor scorers of the deadzone revision.
SensorScorers ==
    {"computeHydrationScore", "computeTempScore", "computeHumScore",
     "computeAirQualityScore", "computeBioSignalScore"}

\* The reading x = <<value, setting>> lies in the scorer's deadzone; for the
\* gas scorer the reading is compared as a ratio to the baseline x[2].
InDeadzone(fn, x) ==
    CASE fn = "computeHydrationScore" -> x[1] >= U(480) /\ x[1] <= U(620)
      [] fn = "computeTempScore" -> x[1] >= U(21) /\ x[1] <= U(25)
      [] fn = "computeHumScore" -> x[1] >= U(55) /\ x[1] <= U(68)
      [] fn = "computeAirQualityScore" -> x[2] > 0 /\ 100 * x[1] <= 115 * x[2]
      [] fn = "computeBioSignalScore" -> x[1] >= U(4) /\ x[1] <= U(22)

\* Both points lie at or below the deadzone / at or above it.
LeftOfDeadzone(fn, x) ==
    CASE fn = "computeHydrationScore" -> x[1] <= U(480)
      [] fn = "computeTempScore" -> x[1] <= U(21)
      [] fn = "computeHumScore" -> x[1] <= U(55)
      [] fn = "computeAirQualityScore" -> FALSE
      [] fn = "computeBioSignalScore" -> x[1] <= U(4)

RightOfDeadzone(fn, x) ==
    CASE fn = "computeHydrationScore" -> x[1] >= U(620)
      [] fn = "computeTempScore" -> x[1] >= U(25)
      [] fn = "computeHumScore" -> x[1] >= U(68)
      [] fn = "computeAirQualityScore" -> x[2] > 0 /\ 100 * x[1] >= 115 * x[2]
      [] fn = "computeBioSignalScore" -> x[1] >= U(22)

\* The probe varies the swept reading only (same wetness, same baseline).
SameSetting(p) == Len(p.a) = 2 => p.a[2] = p.b[2]

\* C7: on one side of the deadzone the reading further from the deadzone
\* never scores higher than the nearer one (a <= b in every probe; hydration
\* over soil 350..850 with a fixed wetness reading).
C7_MonotoneAwayFromDeadzone ==
    ( /\ probe.fn \in SensorScorers
      /\ SameSetting(probe)
      /\ probe.fn = "computeHydrationScore" =>
            probe.a[1] >= U(350) /\ probe.b[1] <= U(850) )
    => /\ RightOfDeadzone(probe.fn, probe.a) => probe.fb <= probe.fa
       /\ LeftOfDeadzone(probe.fn, probe.b) => probe.fa <= probe.fb

\* C7 without the hydration scorer.
C7_OtherScorersMonotone ==
    ( /\ probe.fn \in SensorScorers \ {"computeHydrationScore"}
      /\ SameSetting(probe) )
    => /\ RightOfDeadzone(probe.fn, probe.a) => probe.fb <= probe.fa
       /\ LeftOfDeadzone(probe.fn, probe.b) => probe.fa <= probe.fb

\* The steepest slope of a scorer's bands, in score points per raw unit,
\* rounded up.
SteepestSlope(fn, x) ==
    CASE fn = "computeHydrationScore" -> 2
      [] fn = "computeHydrationScore_g" -> 1
      [] fn = "computeTempScore" -> 20
      [] fn = "computeHumScore" -> 5
      [] fn = "computeAirQualityScore" ->
            IF x[2] <= 0 THEN 0
            ELSE (3000 * RawDen + 35 * x[2] - 1) \div (35 * x[2])
      [] fn = "computeBioSignalScore" -> 40

\* C8: the scorers have no jump at a band boundary: two readings at most one
\* raw unit apart never differ in score by more than the steepest adjacent
\* slope (both hydration scorers and the other sensor scorers).
C8_ContinuousAtBoundaries ==
    ( /\ probe.fn \in SensorScorers \cup {"computeHydrationScore_g"}
      /\ SameSetting(probe)
      /\ probe.b[1] - probe.a[1] <= RawDen )
    => Abs(probe.fa - probe.fb) <= SteepestSlope(probe.fn, probe.a)

\* C8 without the two hydration scorers.
C8_OtherScorersContinuous ==
    ( /\ probe.fn \in SensorScorers \ {"computeHydrationScore"}
      /\ SameSetting(probe)
      /\ probe.b[1] - probe.a[1] <= RawDen )
    => Abs(probe.fa - probe.fb) <= SteepestSlope(probe.fn, probe.a)

C10_WetnessCushion ==
    ( /\ probe.fn \in {"computeHydrationScore", "computeHydrationScore_g"}
      /\ probe.a[1] = probe.b[1]
      /\ probe.a[2] < U(400) /\ probe.b[2] >= U(400) )
    => /\ probe.fa >= probe.fb
       /\ probe.fb < 60 =>
            /\ probe.fa > probe.fb
            /\ probe.fa - probe.fb <= 15
            /\ probe.fa <= 60
       /\ probe.fb >= 60 => probe.fa = probe.fb

\* C10, restricted to the deadzone revision, which has the cushion.
C10_DeadzoneRevisionCushion ==
    ( /\ probe.fn = "computeHydrationScore"
      /\ probe.a[1] = probe.b[1]
      /\ probe.a[2] < U(400) /\ probe.b[2] >= U(400) )
    => /\ probe.fa >= probe.fb
       /\ probe.fb < 60 =>
            /\ probe.fa > probe.fb
            /\ probe.fa - probe.fb <= 15
            /\ probe.fa <= 60
       /\ probe.fb >= 60 => probe.fa = probe.fb

(***************************************************************************)
(* Claims about the tracker                                                *)
(***************************************************************************)

\* The values computed for the latest sample, and for the one k before it.
Latest == seen[Len(seen)]
Before(k) == seen[Len(seen) - k]

\* C3: after every sample the watering index computed for it satisfies
\* 0 <= Wi <= moistureIndex of the same sample, and Wi is 0 while no
\* last-watered time is known.
C3_WiCappedByMoistureIndex ==
    Len(seen) >= 1 =>
        /\ fle(0, Latest.wi)
        /\ fle(Latest.wi, Latest.moistureIndex)
        /\ Latest.lastWateredAt = 0 => Latest.wi = 0

\* C3 for the samples whose moisture index is a number: the cap holds
\* whenever line 906 did not divide 0 by 0.
C3_WiCappedUnlessNaN ==
    (Len(seen) >= 1 /\ ~IsNaN(Latest.moistureIndex)) =>
        /\ fle(0, Latest.wi)
        /\ fle(Latest.wi, Latest.moistureIndex)
        /\ Latest.lastWateredAt = 0 => Latest.wi = 0

\* A sample lowered Gi.
GiLowered(sample) == sample.gi < sample.giBefore

\* A sample left Gi at 0.2 or below with the hit counter reset.
GiClamped(sample) == sample.gi <= Unit \div 5 /\ sample.highZHits = 0

\* A qualifying sample (z >= 3) between two samples that do not qualify
\* lowers Gi neither when it is processed nor at the sample after it.
IsolatedHitKeepsGi ==
    ( /\ Len(seen) >= 3
      /\ ~Before(2).highZ /\ Before(1).highZ /\ ~Latest.highZ )
    => ~GiLowered(Before(1)) /\ ~GiLowered(Latest)

C5_ClampNeedsThreeInARow ==
    (Len(seen) >= 1 /\ Latest.spikeConfirmed) =>
        /\ Len(seen) >= 3
        /\ Latest.highZ /\ Before(1).highZ /\ Before(2).highZ

\* C5, amended: Gi is lowered only by a sample that confirms a spike; such a
\* sample and the one before it qualified, and so did at least one of the
\* two samples before those: a single sample that does not qualify only
\* takes one hit off the counter.
C5_ClampNeedsThreeOfFour ==
    /\ (Len(seen) >= 1 /\ GiLowered(Latest)) => Latest.spikeConfirmed
    /\ (Len(seen) >= 1 /\ Latest.spikeConfirmed) =>
        /\ Len(seen) >= 3
        /\ Latest.highZ /\ Before(1).highZ
        /\ Before(2).highZ \/ (Len(seen) >= 4 /\ Before(3).highZ)

\* C5 witness: a spike was confirmed, and Gi lowered, although the second
\* sample before the confirming one did not qualify.
C5_ClampedAcrossAMiss ==
    /\ Len(seen) >= 4
    /\ Before(3).highZ /\ ~Before(2).highZ /\ Before(1).highZ /\ Latest.highZ
    /\ Latest.spikeConfirmed
    /\ GiLowered(Latest)

(***************************************************************************)
(* Claims about the event log                                              *)
(***************************************************************************)

\* What the earlier hook computed for its latest sample, and for the one k
\* before it.
Latest_v1 == hook_v1.seen[Len(hook_v1.seen)]
Before_v1(k) == hook_v1.seen[Len(hook_v1.seen) - k]

\* after is before with one event of the given text and time put in front:
\* the entries of before keep their order and lose the oldest one if they
\* were 20.
EventPutInFront(before, after, text, time) ==
    /\ Len(after) = Min(20, Len(before) + 1)
    /\ after[1].message = text
    /\ after[1].timestamp = time
    /\ \A i \in 2..Len(after) : after[i] = before[i - 1]

\* A step of a log: a sample that appended an event (sample is what the
\* hook computed for it) puts that event in front, any other step leaves
\* the log as it is.
LogStep(before, after, sampled, sample, text) ==
    IF sampled /\ sample.appended
    THEN EventPutInFront(before, after, text, now)
    ELSE after = before

\* No entry is older than the entry after it.
NewestFirst(log) ==
    \A i \in 1..(Len(log) - 1) : log[i].timestamp >= log[i + 1].timestamp

\* C11: in both hooks the event log never holds more than 20 entries and is
\* ordered newest first; a sample that appends an event puts it in front,
\* dropping the oldest entry of a full log and keeping the order of the
\* others, and no other step changes the log.
C11_EventLogBounded ==
    [][ /\ Len(state'.eventLog) <= 20
        /\ NewestFirst(state'.eventLog)
        /\ LogStep(state.eventLog, state'.eventLog,
                   nSamples' # nSamples, seen'[Len(seen')],
                   getEmotionMessage_g(state'.emotion))
        /\ Len(hook_v1'.state.eventLog) <= 20
        /\ NewestFirst(hook_v1'.state.eventLog)
        /\ LogStep(hook_v1.state.eventLog, hook_v1'.state.eventLog,
                   hook_v1'.nSamples # hook_v1.nSamples,
                   hook_v1'.seen[Len(hook_v1'.seen)],
                   getEmotionMessage(hook_v1'.state.emotion)) ]_vars

\* C11 witness: an event was appended to a log of 20 entries whose oldest
\* entries are older than its newest.
C11_AppendedToFullLog ==
    /\ hook_v1.nSamples > 20
    /\ Latest_v1.appended
    /\ Latest_v1.logLenBefore = 20
    /\ Len(hook_v1.state.eventLog) = 20
    /\ hook_v1.state.eventLog[1].timestamp > hook_v1.state.eventLog[20].timestamp

\* The event a sample of the given emotion appends.
EventOf(emotion, text, log) ==
    /\ log # <<>>
    /\ log[1].message = text
    /\ log[1].type = IF emotion = "I_AM_BEING_WATERED"
                     THEN "watered" ELSE "warning"

\* Two consecutive entries of a log never carry the same text.
NoRepeatedEntry(log) ==
    \A i \in 1..(Len(log) - 1) : log[i].message # log[i + 1].message

\* The latest of the samples in samples appended an event exactly if its
\* emotion differs from that of the sample before it.
EventIffTransition(samples) ==
    Len(samples) >= 2 =>
        ( samples[Len(samples)].appended
            <=> samples[Len(samples)].emotion # samples[Len(samples) - 1].emotion )

\* C12: in both hooks a sample appends one event exactly if its EmotionState
\* differs from that of the sample processed before it; the event is of
\* kind watered for I_AM_BEING_WATERED and warning otherwise, with the text
\* of the new state; no two consecutive entries describe the same state.
C12_EventPerTransition ==
    /\ EventIffTransition(seen)
    /\ EventIffTransition(hook_v1.seen)
    /\ (Len(seen) >= 1 /\ Latest.appended) =>
            /\ EventOf(Latest.emotion, getEmotionMessage_g(Latest.emotion),
                       state.eventLog)
            /\ Len(state.eventLog) = Min(20, Latest.logLenBefore + 1)
    /\ (Len(seen) >= 1 /\ ~Latest.appended) =>
            Len(state.eventLog) = Latest.logLenBefore
    /\ (Len(hook_v1.seen) >= 1 /\ Latest_v1.appended) =>
            /\ EventOf(Latest_v1.emotion, getEmotionMessage(Latest_v1.emotion),
                       hook_v1.state.eventLog)
            /\ Len(hook_v1.state.eventLog) = Min(20, Latest_v1.logLenBefore + 1)
    /\ (Len(hook_v1.seen) >= 1 /\ ~Latest_v1.appended) =>
            Len(hook_v1.state.eventLog) = Latest_v1.logLenBefore
    /\ NoRepeatedEntry(state.eventLog)
    /\ NoRepeatedEntry(hook_v1.state.eventLog)

\* C12 for the earlier hook, whose mount effect runs once.
C12_EarlierHookEventPerTransition ==
    /\ EventIffTransition(hook_v1.seen)
    /\ NoRepeatedEntry(hook_v1.state.eventLog)

\* C12 for the samples of the current hook between which the care targets
\* were not replaced.
C12_EventPerTransitionSameCare ==
    (Len(seen) >= 2 /\ Latest.care = Before(1).care) =>
        EventIffTransition(seen)

(***************************************************************************)
(* Claims about the reminder                                               *)
(***************************************************************************)

\* A step of a pending reminder: a sample with the given scores sets the
\* water reminder, clears it or leaves it; any other step leaves it.
ReminderStep(before, after, sampled, scores) ==
    IF ~sampled THEN after = before
    ELSE IF scores.hydrationScore < 30
        THEN /\ Len(after) = 1
             /\ after[1].type = "water"
             /\ after[1].id = "reminder-water"
             /\ after[1].isUrgent = (scores.hydrationScore < 10)
    ELSE IF /\ scores.hydrationScore >= 60
            /\ scores.comfortScore >= 60
            /\ scores.airQualityScore >= 50
            /\ scores.bioSignalScore >= 30
        THEN after = Null
    ELSE after = before

\* C13: in both hooks every sample sets the water reminder if the hydration
\* score is below 30 (urgent below 10), clears it if hydration >= 60,
\* comfort >= 60, air quality >= 50 and bio signal >= 30, and leaves it as
\* it was otherwise; no other step changes it, and at most one reminder is
\* pending.
C13_ReminderTransition ==
    [][ /\ Len(state'.pendingReminder) <= 1
        /\ ReminderStep(state.pendingReminder, state'.pendingReminder,
                        nSamples' # nSamples, state'.scores)
        /\ Len(hook_v1'.state.pendingReminder) <= 1
        /\ ReminderStep(hook_v1.state.pendingReminder,
                        hook_v1'.state.pendingReminder,
                        hook_v1'.nSamples # hook_v1.nSamples,
                        hook_v1'.state.scores) ]_vars

\* C13 witness: an urgent reminder is still pending after a sample whose
\* hydration score is neither below 30 nor recovered.
C13_UrgentReminderKept ==
    /\ nSamples >= 2
    /\ Latest.raw = state.rawVitals
    /\ state.scores.hydrationScore >= 30
    /\ state.scores.hydrationScore < 60
    /\ state.pendingReminder # Null
    /\ state.pendingReminder[1].isUrgent

(***************************************************************************)
(* Claims about smoothing and publishing                                   *)
(***************************************************************************)

\* The step processes the sample that was processed last, with the care
\* targets and the real-time mode that sample was processed with.
RepeatedSample ==
    /\ nSamples >= 1
    /\ nSamples' = nSamples + 1
    /\ seen'[Len(seen')].raw = Latest.raw
    /\ seen'[Len(seen')].care = Latest.care
    /\ seen'[Len(seen')].realtime = Latest.realtime

\* C14: processing the sample just processed once more leaves the scores,
\* the published comfort metrics, the EmotionState, the event log and the
\* reminder as they are.
C14_RepeatedSampleIdempotent ==
    [][ RepeatedSample =>
            /\ state'.scores = state.scores
            /\ state'.metrics = state.metrics
            /\ state'.emotion = state.emotion
            /\ state'.eventLog = state.eventLog
            /\ state'.pendingReminder = state.pendingReminder ]_vars

\* C14 without the published comfort metrics.
C14_RepeatedSampleKeepsTheRest ==
    [][ RepeatedSample =>
            /\ state'.scores = state.scores
            /\ state'.emotion = state.emotion
            /\ state'.eventLog = state.eventLog
            /\ state'.pendingReminder = state.pendingReminder ]_vars

(***************************************************************************)
(* Claims about watering detection                                         *)
(***************************************************************************)

\* The sample has wetness contact below the partial-contact threshold.
Wet(sample) == sample.raw.raindrop < U(400)

\* What a step that processes a sample does to the watering state, given
\* the samples recorded after it.
WateringStep(after) ==
    LET latest == after[Len(after)]
    IN  /\ latest.watered <=> (Wet(latest) /\ latest.wetStreakBefore = 2)
        /\ Len(after) < 3 => ~latest.watered
        /\ Len(after) >= 3 =>
            ( latest.watered <=>
                /\ Wet(latest)
                /\ Wet(after[Len(after) - 1]) /\ ~after[Len(after) - 1].watered
                /\ Wet(after[Len(after) - 2]) /\ ~after[Len(after) - 2].watered )
        /\ refs'.wetStreak =
                IF latest.watered \/ ~Wet(latest) THEN 0
                ELSE latest.wetStreakBefore + 1
        /\ refs'.lastWateredAt =
                IF latest.watered THEN now ELSE refs.lastWateredAt

\* C15: a sample sets lastWateredAt to the current time exactly if it is
\* the third consecutive wet sample (contact below 400) since the streak
\* counter was reset; the counter is then 0 again, a sample that is not wet
\* sets it to 0, and any other sample leaves lastWateredAt as it was.
C15_WateredOnThirdWetSample ==
    [][ nSamples' # nSamples => WateringStep(seen') ]_vars

\* C15 witness: of six consecutive wet samples the third and the sixth set
\* lastWateredAt.
C15_WateredAgainAfterThreeMore ==
    /\ Len(seen) >= 4
    /\ \A i \in 1..Len(seen) : Wet(seen[i])
    /\ Before(3).watered /\ ~Before(2).watered /\ ~Before(1).watered
    /\ Latest.watered
    /\ refs.wetStreak = 0
    /\ refs.lastWateredAt = now

\* Against the published metrics, a smoothed index moved by more than 0.03
\* or the smoothed soil percent by more than 2 points.
MovedBeyondThreshold(smoothed, published) ==
    \/ \E index \in {"moistureIndex", "tempComfortIndex",
                      "humidityComfortIndex", "pcs"} :
            /\ ~IsNaN(smoothed[index]) /\ ~IsNaN(published[index])
            /\ 100 * Abs(smoothed[index] - published[index]) > 3 * Unit
    \/ /\ ~IsNaN(smoothed.soilPercent) /\ ~IsNaN(published.soilPercent)
       /\ Abs(smoothed.soilPercent - published.soilPercent) > 2 * Unit

\* C16: a sample changes the published comfort metrics only if a smoothed
\* value moved beyond its threshold against the last published values or
\* real-time mode is enabled, and with real-time mode enabled it publishes
\* its smoothed values.
C16_PublishGate ==
    [][ nSamples' # nSamples =>
            LET latest == seen'[Len(seen')]
            IN  /\ state'.metrics # state.metrics =>
                    \/ MovedBeyondThreshold(latest.smooth, state.metrics[1])
                    \/ latest.realtime
                /\ latest.realtime => state'.metrics = Some(latest.smooth) ]_vars

\* C16 witness: a sample that moved no value beyond its threshold was not
\* published; the same sample in real-time mode published its smoothed
\* values.
C16_PublishedInRealtimeOnly ==
    /\ Len(seen) >= 2
    /\ careLoad = "pending"
    /\ Latest.raw = Before(1).raw
    /\ ~Before(1).realtime /\ ~Before(1).published
    /\ Latest.realtime /\ Latest.published
    /\ state.metrics = Some(Latest.smooth)

\* C17: every sample's smoothed values are retained as the basis of the
\* next sample's smoothing, also when the publish gate suppresses them.
C17_SmoothedValuesRetained ==
    [][ nSamples' # nSamples =>
            refs'.prevMetrics = Some(seen'[Len(seen')].smooth) ]_vars

\* C17, as far as the code goes: the basis of the next sample's smoothing
\* is the last published metrics.
C17_BasisIsLastPublished == refs.prevMetrics = state.metrics

\* C18: when the temperature alternates between two readings half a degree
\* apart on consecutive samples, all other readings constant, the
\* EmotionState does not change on every sample and the event log does not
\* receive one event per sample.
C18_StableUnderNoise ==
    LET samples == hook_v1.seen
        n == Len(samples)
    IN  ( /\ n >= 3
          /\ \A i \in (n - 1)..n :
                /\ samples[i].raw # samples[i - 1].raw
                /\ Abs(samples[i].raw.temperature
                       - samples[i - 1].raw.temperature) * 2 <= RawDen
                /\ samples[i].raw = [samples[i - 1].raw EXCEPT
                        !.temperature = samples[i].raw.temperature] )
        => ~ \A i \in (n - 2)..n : samples[i].appended

\* C18, as far as the code goes: a sample equal to the previous one leaves
\* the EmotionState and the event log alone.
C18_StableUnderConstantInput ==
    LET samples == hook_v1.seen
        n == Len(samples)
    IN  (n >= 2 /\ samples[n].raw = samples[n - 1].raw)
        => /\ samples[n].emotion = samples[n - 1].emotion
           /\ ~samples[n].appended

\* C19: a sample puts exactly one new reading into each rolling window, the
\* gas window and the bio-signal baseline window.
C19_OneReadingPerSample ==
    [][ nSamples' # nSamples =>
            LET raw == seen'[Len(seen')].raw
            IN  /\ refs'.mq2Window = pushWindow(refs.mq2Window, raw.mq2)
                /\ bioReadings' = updateBioBaseline(bioReadings, raw.bio) ]_vars

\* C19, as far as the code goes: the gas window receives one reading per
\* sample and the bio-signal baseline window two.
C19_GasOnceBioTwice ==
    [][ nSamples' # nSamples =>
            LET raw == seen'[Len(seen')].raw
            IN  /\ refs'.mq2Window = pushWindow(refs.mq2Window, raw.mq2)
                /\ bioReadings' = updateBioBaseline(
                        updateBioBaseline(bioReadings, raw.bio), raw.bio) ]_vars

\* The care targets are replaced in this step, after at least one sample.
CareTargetsReplaced ==
    /\ nSamples >= 1
    /\ state'.careTargets # state.careTargets

\* C20: replacing the care targets leaves the previous smoothed metrics, the
\* previously stored EmotionState, lastWateredAt, the wet-streak counter,
\* the gas window, the hit counter and Gi as they were.
C20_CareTargetsKeepTrackerState ==
    [][ CareTargetsReplaced =>
            /\ refs'.prevMetrics = refs.prevMetrics
            /\ refs'.prevEmotion = refs.prevEmotion
            /\ refs'.lastWateredAt = refs.lastWateredAt
            /\ refs'.wetStreak = refs.wetStreak
            /\ refs'.mq2Window = refs.mq2Window
            /\ refs'.highZHits = refs.highZHits
            /\ refs'.gi = refs.gi ]_vars

\* C20, as far as the code goes: replacing the care targets leaves
\* lastWateredAt, the wet-streak counter, the gas window, the hit counter
\* and Gi as they were.
C20_CareTargetsKeepWateringAndGasState ==
    [][ CareTargetsReplaced =>
            /\ refs'.lastWateredAt = refs.lastWateredAt
            /\ refs'.wetStreak = refs.wetStreak
            /\ refs'.mq2Window = refs.mq2Window
            /\ refs'.highZHits = refs.highZHits
            /\ refs'.gi = refs.gi ]_vars

\* An index that is a number between 0 and 1.
InUnitInterval(index) == ~IsNaN(index) /\ 0 <= index /\ index <= Unit

\* The comfort metrics of a remembered sample, before the Wi and Gi factors.
BaseMetricsOf(sample) == computeComfortMetrics(sample.raw, careOf(sample.care))

\* 0.5 * moistureIndex + 0.25 * tempComfortIndex + 0.25 * humidityComfortIndex.
AdditiveBaseOf(sample) ==
    LET m == BaseMetricsOf(sample)
    IN  (2 * m.moistureIndex + m.tempComfortIndex + m.humidityComfortIndex) \div 4

\* C21: after every sample moistureIndex, tempComfortIndex,
\* humidityComfortIndex, PCS, Wi and Gi lie in [0,1], whatever the care
\* targets, and PCS does not exceed the additive base.
C21_IndicesInUnitInterval ==
    \A i \in 1..Len(seen) :
        /\ InUnitInterval(seen[i].moistureIndex)
        /\ InUnitInterval(BaseMetricsOf(seen[i]).tempComfortIndex)
        /\ InUnitInterval(BaseMetricsOf(seen[i]).humidityComfortIndex)
        /\ InUnitInterval(seen[i].pcs)
        /\ InUnitInterval(seen[i].wi)
        /\ InUnitInterval(seen[i].gi)
        /\ seen[i].pcs <= AdditiveBaseOf(seen[i]) + 1

\* C21, as far as the code goes: the same for samples scored against care
\* targets whose soil bounds differ, or whose soil percent is not the
\* common bound.
C21_IndicesInUnitIntervalProperSoilRange ==
    \A i \in 1..Len(seen) :
        LET care == careOf(seen[i].care)
        IN  ( \/ care.max_soil_moist # care.min_soil_moist
              \/ soilPercentOf(seen[i].raw.soilMoisture)
                    # care.min_soil_moist * Unit )
            => /\ InUnitInterval(seen[i].moistureIndex)
               /\ InUnitInterval(BaseMetricsOf(seen[i]).tempComfortIndex)
               /\ InUnitInterval(BaseMetricsOf(seen[i]).humidityComfortIndex)
               /\ InUnitInterval(seen[i].pcs)
               /\ InUnitInterval(seen[i].wi)
               /\ InUnitInterval(seen[i].gi)
               /\ seen[i].pcs <= AdditiveBaseOf(seen[i]) + 1

\* C22: a sample computes Wi with the benchmarkDays value in force when it
\* is processed, whatever the order of the store read, the lookup, the
\* care-target load and the samples.
C22_WiUsesCurrentBenchmark ==
    [][ nSamples' # nSamples =>
            LET latest == seen'[Len(seen')]
            IN  latest.wi = wateringIndex(latest.lastWateredAt, now,
                                          state.benchmarkDays,
                                          latest.moistureIndex) ]_vars

\* C22, as far as the code goes: a sample computes Wi with the
\* benchmarkDays value of the render in which updateStateFromRawVitals was
\* last created.
C22_WiUsesBenchmarkOfClosure ==
    [][ nSamples' # nSamples =>
            LET latest == seen'[Len(seen')]
            IN  latest.wi = wateringIndex(latest.lastWateredAt, now,
                                          closure.benchmarkDays,
                                          latest.moistureIndex) ]_vars

(***************************************************************************)
(* The live and the simulated feed: the earlier hook with its data client, *)
(* through mode switches, renders, socket events and simulated inputs      *)
(***************************************************************************)

\* Sockets one run creates, samples it processes, setSimulatedVitals calls.
MaxSockets == 3
MaxFeedSamples == 2
MaxSimCalls == 2

\* Close codes: normal, going away, abnormal.
CloseCodes == {1000, 1001, 1006}

\* Readings the server sends and soil readings the simulation sets.
LiveInputs == {DEFAULT_RAW_VITALS_v1,
               [DEFAULT_RAW_VITALS_v1 EXCEPT !.soilMoisture = U(850)]}
SimulatedInputs == {[soil |-> U(750)], [soil |-> U(800)]}

clientOnly ==
    UNCHANGED <<probe, derived, server, hook_v1, now, store, refs, state,
                closure, bioReadings, careLoad, wateringLoad, seen, nSamples>>

hookAndClientOnly ==
    UNCHANGED <<probe, derived, server, now, store, refs, state, closure,
                bioReadings, careLoad, wateringLoad, seen, nSamples>>

\* The user switches the simulation on or off.  Pending effects run before
\* an input event is handled.
SetSimulationMode_v1 ==
    /\ client.effect = "done"
    /\ \E enabled \in BOOLEAN : client' = setSimulationMode_v1(client, enabled)
    /\ clientOnly

\* The render that follows setSimulationModeState: the effect is due when
\* simulationMode changed.  The effect of one render runs before the next
\* render.
ClientRender ==
    /\ client.pendingMode # <<>>
    /\ client.effect = "done"
    /\ client' = [client EXCEPT
                    !.simulationMode = client.pendingMode[1],
                    !.pendingMode = <<>>,
                    !.effect = IF client.pendingMode[1] # client.simulationMode
                               THEN "due" ELSE @]
    /\ clientOnly

\* The connection effect runs, on mount and after a render that changed
\* simulationMode.
ClientEffect ==
    /\ client.effect = "due"
    /\ client.simulationMode \/ Len(client.sockets) < MaxSockets
    /\ client' = connectionEffect(client)
    /\ clientOnly

\* A connecting socket opens.
SocketOpens ==
    /\ \E i \in 1..Len(client.sockets) :
        /\ client.sockets[i].readyState = "CONNECTING"
        /\ LET opened == [client EXCEPT !.sockets[i].readyState = "OPEN"]
           IN  client' = IF client.sockets[i].handlers
                         THEN onopen(opened) ELSE opened
    /\ clientOnly

\* A socket closes: the server or the network ends it, or the close the
\* client asked for completes.
SocketCloses ==
    /\ \E i \in 1..Len(client.sockets), code \in CloseCodes :
        /\ client.sockets[i].readyState \in {"CONNECTING", "OPEN", "CLOSING"}
        /\ LET closed == [client EXCEPT !.sockets[i].readyState = "CLOSED"]
           IN  client' = IF client.sockets[i].handlers
                         THEN onclose(closed, code) ELSE closed
    /\ clientOnly

\* A well-formed message arrives on a socket that is open or closing:
\* ws.onmessage (lines 108-128 of the client) hands it to the hook's
\* handleSensorUpdate.
SocketMessage ==
    /\ hook_v1.nSamples < MaxFeedSamples
    /\ \E i \in 1..Len(client.sockets), raw \in LiveInputs :
        /\ client.sockets[i].readyState \in {"OPEN", "CLOSING"}
        /\ hook_v1' = IF /\ client.sockets[i].handlers
                         /\ client.onUpdateCallback
                      THEN updateStateFromRawVitals_v1(hook_v1, raw, now,
                                                       KeepSamples)
                      ELSE hook_v1
    /\ UNCHANGED client
    /\ hookAndClientOnly

\* The user sets a simulated reading.
SetSimulatedVitals ==
    /\ client.effect = "done"
    /\ hook_v1.nSamples < MaxFeedSamples
    /\ client.simCalls < MaxSimCalls
    /\ client' = [client EXCEPT !.simCalls = @ + 1]
    /\ \E vitals \in SimulatedInputs :
        hook_v1' = setSimulatedVitals(client.simulationMode, hook_v1, vitals,
                                      now, KeepSamples)
    /\ hookAndClientOnly

NextFeeds ==
    \/ SetSimulationMode_v1
    \/ ClientRender
    \/ ClientEffect
    \/ SocketOpens
    \/ SocketCloses
    \/ SocketMessage
    \/ SetSimulatedVitals

SpecFeeds == InitGas /\ [][NextFeeds]_vars

\* A sample is processed in this step.
SampleProcessed == hook_v1'.nSamples # hook_v1.nSamples

\* C23: no live sample reaches updateStateFromRawVitals while simulation
\* mode is enabled or being enabled, setSimulatedVitals has no effect while
\* it is disabled, and a step that processes a sample processes one sample
\* completely.
C23_FeedsSerialized ==
    [][ /\ (SampleProcessed /\ client'.simCalls = client.simCalls)
            => /\ ~client.simulationMode
               /\ client.pendingMode # <<TRUE>>
        /\ (client'.simCalls # client.simCalls /\ ~client.simulationMode)
            => hook_v1' = hook_v1
        /\ SampleProcessed
            => hook_v1' = updateStateFromRawVitals_v1(
                              hook_v1,
                              hook_v1'.seen[Len(hook_v1'.seen)].raw,
                              now, KeepSamples) ]_vars

\* C23 witness: a live sample and a simulated sample were processed, the
\* simulation is on, and the socket of the live feed is still closing.
C23_SimulatedAfterLive ==
    /\ hook_v1.nSamples = 2
    /\ client.simCalls = 1
    /\ client.simulationMode
    /\ Latest_v1.raw.soilMoisture = U(800)
    /\ \E i \in 1..Len(client.sockets) :
            client.sockets[i].readyState = "CLOSING"

\* An onclose handler ran in this step for a close that was not normal.
ClosedAbnormally ==
    /\ client'.closes # client.closes
    /\ client'.closeCode \notin {1000, 1001}

\* C24: when a connection that was not intentionally disconnected closes
\* abnormally the status becomes 'error'.  A socket the client disconnected
\* carries no onclose handler, so every close the handler sees is of a
\* connection that was not intentionally disconnected.
C24_AbnormalCloseIsError ==
    [][ ClosedAbnormally => client'.status = "error" ]_vars

\* C24, as far as the code goes: the status becomes 'error' on an abnormal
\* close unless disconnect() was called since the last onclose, and 'idle'
\* on a normal close.
C24_AbnormalCloseIsErrorUnlessFlagSet ==
    [][ client'.closes # client.closes =>
            client'.status =
                IF client.isDisconnecting \/ client'.closeCode \in {1000, 1001}
                THEN "idle" ELSE "error" ]_vars

(***************************************************************************)
(* The sensor servers: client connections, WebSocket messages, HTTP posts, *)
(* serial data and the streaming timer, in any order                       *)
(***************************************************************************)

\* Clients connected at once, timers one run creates, and the buffer
\* length up to which serial chunks keep arriving in these runs.
MaxClients == 2
MaxTimers == 3
MaxServerBuffer == 100

\* States a client may send: complete, without temp, with a soil reading
\* that is no number.
MockReading ==
    [soil |-> 700, temp |-> 25, hum |-> 50, mq2 |-> 90, rain |-> 300,
     bio |-> 510]
ReadingWithoutTemp ==
    [soil |-> 700, hum |-> 50, mq2 |-> 90, rain |-> 300, bio |-> 510]
ReadingWithTextSoil == [MockReading EXCEPT !.soil = Text]

Messages ==
    { [type |-> "start", intervalMs |-> ms, state |-> <<>>, mode |-> "real"] :
        ms \in {<<>>, <<0>>, <<500>>} }
    \cup { [type |-> "stop", intervalMs |-> <<>>, state |-> <<>>,
            mode |-> "real"] }
    \cup { [type |-> "set", intervalMs |-> <<>>, state |-> st, mode |-> "real"] :
            st \in {<<>>, <<MockReading>>, <<ReadingWithoutTemp>>,
                    <<ReadingWithTextSoil>>} }
    \cup { [type |-> "setMode", intervalMs |-> <<>>, state |-> <<>>,
            mode |-> mode] : mode \in {"real", "mock"} }

\* Bodies of a POST: the six values, a json object, values that are
\* incomplete.
Payloads ==
    { [json |-> <<>>, flat |-> MockReading],
      [json |-> <<>>, flat |-> ReadingWithoutTemp],
      [json |-> <<MockReading>>, flat |-> ReadingWithoutTemp],
      [json |-> <<ReadingWithTextSoil>>, flat |-> MockReading] }

\* Serial chunks: an object, its two halves, a lone closing brace.
ServerChunks == {ObjectText, <<"{", "h", "{">>, <<"f", "}", "}">>, <<"}">>}

serverOnly ==
    UNCHANGED <<probe, derived, client, hook_v1, now, store, refs, state,
                closure, bioReadings, careLoad, wateringLoad, seen, nSamples>>

ClientConnects ==
    /\ ~server.crashed
    /\ server.clients < MaxClients
    /\ server.nextTimer <= MaxTimers
    /\ server' = onConnection(server)
    /\ serverOnly

\* ws.on('close') (lines 909-911) logs.
ClientDisconnects ==
    /\ ~server.crashed
    /\ server.clients > 0
    /\ server' = [handling(server, "close") EXCEPT !.clients = @ - 1]
    /\ serverOnly

WsMessage ==
    /\ ~server.crashed
    /\ server.clients > 0
    /\ server.nextTimer <= MaxTimers
    /\ \E message \in Messages : server' = onMessage(server, message)
    /\ serverOnly

PostSensors ==
    /\ ~server.crashed
    /\ server.build \in {"first", "unified"}
    /\ \E payload \in Payloads : server' = postSensors(server, payload)
    /\ serverOnly

PostMockSensors ==
    /\ ~server.crashed
    /\ server.build = "unified"
    /\ \E payload \in Payloads : server' = postMockSensors(server, payload)
    /\ serverOnly

PostMode ==
    /\ ~server.crashed
    /\ server.build = "unified"
    /\ \E mode \in {"real", "mock"} : server' = postMode(server, mode)
    /\ serverOnly

SerialData ==
    /\ ~server.crashed
    /\ server.build \in {"first", "unified"}
    /\ server.jsonBuffer.len < MaxServerBuffer
    /\ \E chunk \in ServerChunks : server' = onSerialData(server, chunk)
    /\ serverOnly

StreamTick ==
    /\ ~server.crashed
    /\ server.timers # {}
    /\ server' = onStreamTick(server)
    /\ serverOnly

InitServers ==
    /\ probe = NoProbe
    /\ derived = NoneDerived
    /\ HookIs(Mounted(StartTick, EmptyStore))
    /\ LoadsPending
    /\ seen = <<>>
    /\ nSamples = 0
    /\ hook_v1 = Mounted_v1
    /\ client = ClientConstructed
    /\ \E build \in Builds : server = ServerStarted(build)

NextServers ==
    \/ ClientConnects
    \/ ClientDisconnects
    \/ WsMessage
    \/ PostSensors
    \/ PostMockSensors
    \/ PostMode
    \/ SerialData
    \/ StreamTick

SpecServers == InitServers /\ [][NextServers]_vars

\* The handler that ran in this step left the sensor state alone and
\* broadcast nothing.
InputWithoutEffect ==
    /\ server'.currentState = server.currentState
    /\ server'.out = "none"

\* C25: in the unified server, in mock mode serial data and POST /sensors
\* never change the sensor state, in real mode a 'set' message and POST
\* /api/mock/sensors never change it, the two POSTs answer 400 then, and an
\* input that is rejected or ignored changes nothing and broadcasts nothing.
C25_ModeGating ==
    [][ server.build = "unified" =>
            /\ (server.mode = "mock" /\ server'.event \in {"serial", "postSensors"})
                => InputWithoutEffect
            /\ (server.mode = "mock" /\ server'.event = "postSensors")
                => server'.response = 400
            /\ (server.mode = "real"
                    /\ server'.event \in {"set", "postMockSensors"})
                => InputWithoutEffect
            /\ (server.mode = "real" /\ server'.event = "postMockSensors")
                => server'.response = 400
            /\ server'.response = 400 => InputWithoutEffect ]_vars

\* C25 witness: in real mode the state came from the serial line, and a
\* 'set' message with a complete state was ignored.
C25_SetIgnoredInRealMode ==
    /\ server.build = "unified"
    /\ server.mode = "real"
    /\ server.event = "set"
    /\ server.out = "none"
    /\ server.currentState = SerialReading

\* The timers after a 'start' that asked for the given interval.
TimerReplacedBy(interval) ==
    /\ server'.streamInterval \notin {t.id : t \in server.timers}
    /\ server'.timers = {[id |-> server'.streamInterval, ms |-> interval]}

\* What holds of the streaming timer at every step, 'start' aside.
StreamingStep ==
    /\ Cardinality(server'.timers) <= 1
    /\ (server'.streamInterval = 0) = (server'.timers = {})
    /\ server'.timers # server.timers
        => server'.event \in {"connection", "start", "stop"}
    /\ (server'.event = "connection" /\ ~server'.crashed)
        => IF server.streamInterval = 0
           THEN TimerReplacedBy(1000)
           ELSE server'.timers = server.timers
    /\ server'.event = "stop" => server'.timers = {}
    /\ server'.event = "tick" => server.timers # {}

\* C26: at most one streaming timer is active, a client connection starts
\* streaming at 1000 ms when no timer is active, 'start' replaces the
\* running timer with one at the requested interval (1000 ms when the
\* message names none), and after 'stop' no timer is active until the next
\* 'start' or connection.
C26_StreamingTimer ==
    [][ /\ StreamingStep
        /\ server'.event = "start"
            => TimerReplacedBy(IF server'.requested = <<>> THEN 1000
                               ELSE server'.requested[1]) ]_vars

\* C26 with the interval the code uses: 1000 ms also when the message asks
\* for an interval of 0.
C26_StreamingTimerDefaulting ==
    [][ /\ StreamingStep
        /\ server'.event = "start"
            => TimerReplacedBy(IF server'.requested \in {<<>>, <<0>>}
                               THEN 1000 ELSE server'.requested[1]) ]_vars

\* C26 witness: 'start' replaced a running timer by one at 500 ms while two
\* clients were connected.
C26_TimerReplaced ==
    /\ server.event = "start"
    /\ server.clients = 2
    /\ server.streamInterval = 2
    /\ server.timers = {[id |-> 2, ms |-> 500]}

\* C29: the current sensor state always holds all six numeric fields, so
\* the periodic broadcast can always be formatted.
C29_StateAlwaysComplete ==
    /\ validSensorState(server.currentState)
    /\ ~server.crashed

\* C29, as far as the code goes: every input other than a 'set' message
\* keeps a complete state complete.
C29_StateCompleteWithoutSet ==
    [][ (server'.event # "set" /\ validSensorState(server.currentState))
            => /\ validSensorState(server'.currentState)
               /\ ~server'.crashed ]_vars

(***************************************************************************)
(* The serial line: chunks of any kind first, then well-formed objects     *)
(* only, one object per chunk                                              *)
(***************************************************************************)

\* Chunks that arrive before the line is clean.
MaxNoisyChunks == 3

\* What a noisy line delivers: objects, half objects, two objects in one
\* chunk, an object with fewer fields, lone braces, other text.
NoisyChunks ==
    {ObjectText, <<"{", "h", "{">>, <<"f", "}", "}">>, ObjectText \o ObjectText,
     PartialObjectText, <<"{">>, <<"}">>, <<"x">>}

NoisySerialData ==
    /\ ~server.clean
    /\ server.garbage < MaxNoisyChunks
    /\ \E chunk \in NoisyChunks :
        server' = [onSerialData(server, chunk) EXCEPT !.garbage = @ + 1]
    /\ serverOnly

\* From here on the line delivers well-formed objects.
LineCleans ==
    /\ ~server.clean
    /\ server' = [handling(server, "none") EXCEPT !.clean = TRUE]
    /\ serverOnly

CleanSerialData ==
    /\ server.clean
    /\ server' = onSerialData(server, ObjectText)
    /\ serverOnly

InitSerial ==
    /\ probe = NoProbe
    /\ derived = NoneDerived
    /\ HookIs(Mounted(StartTick, EmptyStore))
    /\ LoadsPending
    /\ seen = <<>>
    /\ nSamples = 0
    /\ hook_v1 = Mounted_v1
    /\ client = ClientConstructed
    /\ \E build \in {"first", "unified"} : server = ServerStarted(build)

NextSerial == NoisySerialData \/ LineCleans \/ CleanSerialData

\* The serial port keeps delivering: an object that changes the state of
\* the accumulator is eventually handled.
SpecSerial == InitSerial /\ [][NextSerial]_vars /\ WF_vars(CleanSerialData)

\* An object of the clean line was parsed and broadcast.
ObjectBroadcast == server.event = "serial" /\ server.out = "broadcast"

\* C28: once the line delivers well-formed objects only, an object is
\* eventually parsed and broadcast, whatever arrived before.
C28_RecoversAfterGarbage == [](server.clean => <>ObjectBroadcast)

\* C28, as far as the code goes: the accumulator recovers when the braces
\* that arrived before balance.
C28_RecoversWhenBracesBalance ==
    []((server.clean /\ server.braceCount = 0) => <>ObjectBroadcast)

\* C28, the buffer: while the braces balance it holds at most BUFFER_LIMIT
\* characters and one chunk more.
C28_BufferBoundedWhenBracesBalance ==
    server.braceCount = 0
        => server.jsonBuffer.len <= BUFFER_LIMIT + CharsIn(ObjectText \o ObjectText)

(***************************************************************************)
(* The watering time across the samples and the startup read.              *)
(***************************************************************************)

\* A step leaves the store with a watering time that is not older than the
\* one the hook holds.
StoreWrittenNotOlder ==
    store'.last # store.last => store'.last >= refs'.lastWateredAt

\* C27: lastWateredAt never moves backward in time: in every interleaving of
\* the samples with the startup read of the persisted timestamp no step
\* lowers the watering time the hook holds, and a step that writes the
\* store writes a time that is not older than the one held in memory.
C27_LastWateredAtNeverMovesBack ==
    [][/\ refs'.lastWateredAt >= refs.lastWateredAt
       /\ StoreWrittenNotOlder]_vars

\* C27, as far as the code goes: the watering time moves backward only in
\* the step that applies the persisted value (lines 963-966), and every
\* write to the store is the time held in memory.
C27_OnlyPersistedValueMovesBack ==
    [][/\ refs'.lastWateredAt < refs.lastWateredAt
            => /\ wateringLoad.pc = "loaded"
               /\ refs'.lastWateredAt = wateringLoad.lastRaw
       /\ store'.last # store.last => store'.last = refs'.lastWateredAt]_vars

(***************************************************************************)
(* The emotion and the reminder of the published state.                    *)
(***************************************************************************)

\* The reminder the emotion of a state calls for is pending.
ReminderAgrees(st) ==
    /\ st.emotion \in {"I_NEED_WATER", "I_AM_NEARLY_DEAD"}
         => /\ st.pendingReminder # Null
            /\ st.pendingReminder[1].type = "water"
    /\ st.emotion = "I_AM_NEARLY_DEAD"
         => /\ st.pendingReminder # Null
            /\ st.pendingReminder[1].isUrgent

\* C30: state and reminder agree after every sample, in both hooks: when the
\* emotion is I_NEED_WATER or I_AM_NEARLY_DEAD a water reminder is pending,
\* and when it is I_AM_NEARLY_DEAD that reminder is urgent.
C30_StateAndReminderAgree ==
    /\ ReminderAgrees(state)
    /\ ReminderAgrees(hook_v1.state)

\* C30 for the earlier hook alone.
C30_StateAndReminderAgreeEarlierHook ==
    ReminderAgrees(hook_v1.state)

\* C30, as far as the code goes: in the earlier hook a thirsty or nearly
\* dead plant has a water reminder pending, urgent when the hydration score
\* is below 10; in the current hook a reminder that is pending is a water
\* reminder, urgent exactly when the hydration score that set it was
\* below 10.
C30_ReminderFollowsHydrationScore ==
    /\ hook_v1.state.emotion \in {"I_NEED_WATER", "I_AM_NEARLY_DEAD"}
         => /\ hook_v1.state.pendingReminder # Null
            /\ hook_v1.state.pendingReminder[1].type = "water"
            /\ hook_v1.state.scores.hydrationScore < 10
                 => hook_v1.state.pendingReminder[1].isUrgent
    /\ state.pendingReminder # Null
         => state.pendingReminder[1].type = "water"
====
